---------------------------- MODULE Spec2Model ----------------------------
(***************************************************************************)
(* A model of pptx2beamer.py: the theme parser, the background locator,    *)
(* the background registry, the layout parser, the coordinate converter,   *)
(* the outer-theme generator and main.                                     *)
(*                                                                         *)
(* Python values are modelled as follows.                                  *)
(*   - None is the string NoneV; every other string stands for itself.     *)
(*   - A dict is a sequence of <<key, value>> pairs in insertion order     *)
(*     (Python dicts keep insertion order); DictPut overwrites in place.   *)
(*   - An XML attribute read with int() is a record [kind, v]: kind is     *)
(*     "int" (a decimal literal of value v), "bad" (text int() rejects     *)
(*     with ValueError) or "absent" (the attribute is missing).            *)
(*   - A function that can raise returns a record with a field exc that    *)
(*     names the exception ("none" when it returns normally).              *)
(***************************************************************************)
EXTENDS Integers, Sequences, FiniteSets, TLC

VARIABLES
    tpc,          \* theme harness: "idle" | "done"
    themeDoc,     \* theme harness: the theme document handed to parse_theme_xml
    themeOut,     \* theme harness: [colors, fonts] returned by parse_theme_xml
    lpc,          \* locator harness: "idle" | "done"
    bgDoc,        \* locator harness: the slide-like document searched
    bgRels,       \* locator harness: its relationship document
    bgOut,        \* locator harness: what find_background_image_in_xml gave
    rpc,          \* find_background_images: "masters" | "layouts" (the directory
                  \* being scanned) | "returned" | "raised"
    backgrounds,  \* find_background_images: the registry, image name -> command
    scanned,      \* find_background_images: documents scanned so far
    seen,         \* history: <<image name, relationship id>> of every document
                  \* that resolved to an image, in scan order
    cpc,          \* converter harness: "idle" | "done"
    position,     \* converter harness: the placeholder position converted
    beamer_pos,   \* converter harness: what the converter returned
    layoutPc,     \* parse_slide_layouts: "loop" | "returned" | "raised"
    layoutDir,    \* history: the layout documents met so far, in glob order
    layouts,      \* parse_slide_layouts: the layout map, name -> descriptor
    outer_file,   \* generate_outer_theme on that map: [exc, lines]
    pc,           \* main: "idle", the step to take next, or "exited"
    archive,      \* main: the input file and the documents inside it
    inkscape,     \* main: "absent" | "works" | "fails"
    output_dir,   \* main: [exists, files], files a dict name -> content
    locals,       \* main: colors, fonts, slide_fonts, layouts, styling_info
    exit_code     \* main: the exit code once pc = "exited"

themeVars == <<tpc, themeDoc, themeOut>>
locVars == <<lpc, bgDoc, bgRels, bgOut>>
regVars == <<rpc, backgrounds, scanned, seen>>
convVars == <<cpc, position, beamer_pos>>
layoutVars == <<layoutPc, layoutDir, layouts, outer_file>>
mainVars == <<pc, archive, inkscape, output_dir, locals, exit_code>>
vars == <<themeVars, locVars, regVars, convVars, layoutVars, mainVars>>

\* what each component's steps leave alone
notTheme == <<locVars, regVars, convVars, layoutVars, mainVars>>
notLoc == <<themeVars, regVars, convVars, layoutVars, mainVars>>
notReg == <<themeVars, locVars, convVars, layoutVars, mainVars>>
notConv == <<themeVars, locVars, regVars, layoutVars, mainVars>>
notLayout == <<themeVars, locVars, regVars, convVars, mainVars>>
notMain == <<themeVars, locVars, regVars, convVars, layoutVars>>

NoneV == "None"

-----------------------------------------------------------------------------
(* Python dict, insertion ordered *)

RECURSIVE DictIndex(_, _, _)
DictIndex(d, k, i) ==
    IF i > Len(d) THEN 0
    ELSE IF d[i][1] = k THEN i
    ELSE DictIndex(d, k, i + 1)

DictHas(d, k) == DictIndex(d, k, 1) # 0

DictGet(d, k, dflt) == IF DictHas(d, k) THEN d[DictIndex(d, k, 1)][2] ELSE dflt

DictPut(d, k, v) ==
    IF DictHas(d, k)
    THEN [d EXCEPT ![DictIndex(d, k, 1)] = <<k, v>>]
    ELSE Append(d, <<k, v>>)

DictKeys(d) == {d[i][1] : i \in 1..Len(d)}

DictValues(d) == {d[i][2] : i \in 1..Len(d)}

EmptyDict == <<>>

SeqsUpTo(S, n) == UNION {[1..m -> S] : m \in 0..n}

\* A Python float quotient is modelled by the exact rational it rounds,
\* <<numerator, denominator>> in lowest terms with a positive denominator.
Abs(n) == IF n < 0 THEN 0 - n ELSE n

RECURSIVE Gcd(_, _)
Gcd(a, b) == IF b = 0 THEN a ELSE Gcd(b, a % b)

Frac(n, d) ==
    LET g == Gcd(Abs(n), d) IN <<n \div g, d \div g>>

-----------------------------------------------------------------------------
(* parse_theme_xml *)

\* One child element of a:clrScheme: its tag, and what it holds: an a:srgbClr
\* child ("srgb", val = its val attribute or NoneV when the attribute is
\* missing), else an a:sysClr child ("sys", val = its lastClr attribute or NoneV
\* when missing), else neither ("none").
SchemeChild(tag, kind, val) == [tag |-> tag, kind |-> kind, val |-> val]

\* lines 50-59: one iteration of the loop over the scheme's children
SchemeSlot(colors, c) ==
    IF c.kind = "srgb" THEN DictPut(colors, c.tag, c.val)
    ELSE IF c.kind = "sys"
        THEN DictPut(colors, c.tag, IF c.val = NoneV THEN "FFFFFF" ELSE c.val)
    ELSE colors

RECURSIVE SchemeLoop(_, _, _)
SchemeLoop(colors, scheme, i) ==
    IF i > Len(scheme) THEN colors
    ELSE SchemeLoop(SchemeSlot(colors, scheme[i]), scheme, i + 1)

\* lines 62-69: a mutant of AddAlias that overwrites a declared alias
AddAliasOverwrite(colors, alias, src) ==
    IF DictHas(colors, src)
    THEN DictPut(colors, alias, DictGet(colors, src, NoneV))
    ELSE colors

\* lines 62-63 (and 64-65, 66-67, 68-69): one alias synthesis
AddAlias(colors, alias, src) ==
    IF ~DictHas(colors, alias) /\ DictHas(colors, src)
    THEN DictPut(colors, alias, DictGet(colors, src, NoneV))
    ELSE colors

\* lines 61-69, in the code's order
AddAliases(colors) ==
    AddAlias(AddAlias(AddAlias(AddAlias(colors,
        "bg1", "lt1"), "bg2", "dk1"), "tx1", "dk1"), "tx2", "dk2")

NumStr(n) ==
    CASE n = 0 -> "0" [] n = 1 -> "1" [] n = 2 -> "2" [] n = 3 -> "3"
      [] n = 4 -> "4" [] n = 5 -> "5" [] n = 6 -> "6" [] n = 7 -> "7"
      [] n = 8 -> "8" [] n = 9 -> "9"

\* line 76: f'custom{i+1}' for the 0-based enumerate index i = n - 1
CustomKey(n) == "custom" \o NumStr(n)

\* line 72: the val attributes of every a:srgbClr of the document in document
\* order: those inside the scheme's children, then those elsewhere.
RECURSIVE SchemeSrgb(_, _)
SchemeSrgb(scheme, i) ==
    IF i > Len(scheme) THEN <<>>
    ELSE (IF scheme[i].kind = "srgb" THEN <<scheme[i].val>> ELSE <<>>)
         \o SchemeSrgb(scheme, i + 1)

SrgbList(doc) ==
    (IF doc.hasScheme THEN SchemeSrgb(doc.scheme, 1) ELSE <<>>) \o doc.extra

\* lines 73-76: a mutant of CustomLoop that registers a value the map holds
RECURSIVE CustomLoopNoSkip(_, _, _)
CustomLoopNoSkip(colors, srgb, i) ==
    IF i > Len(srgb) THEN colors
    ELSE CustomLoopNoSkip(
            IF srgb[i] # NoneV
            THEN DictPut(colors, CustomKey(i), srgb[i])
            ELSE colors,
            srgb, i + 1)

\* lines 73-76
RECURSIVE CustomLoop(_, _, _)
CustomLoop(colors, srgb, i) ==
    IF i > Len(srgb) THEN colors
    ELSE CustomLoop(
            IF srgb[i] # NoneV /\ srgb[i] \notin DictValues(colors)
            THEN DictPut(colors, CustomKey(i), srgb[i])
            ELSE colors,
            srgb, i + 1)

\* lines 48-69: an Element is false when it has no children
SchemeColors(doc) ==
    IF doc.hasScheme /\ Len(doc.scheme) > 0
    THEN AddAliases(SchemeLoop(EmptyDict, doc.scheme, 1))
    ELSE EmptyDict

\* lines 78-88
ThemeFonts(doc) ==
    (IF doc.major # "absent" THEN <<(<<"major", doc.major>>)>> ELSE <<>>)
    \o (IF doc.minor # "absent" THEN <<(<<"minor", doc.minor>>)>> ELSE <<>>)

\* lines 29-90
parse_theme_xml(doc) ==
    IF ~doc.exists THEN [colors |-> EmptyDict, fonts |-> EmptyDict]
    ELSE IF ~doc.wellformed THEN [colors |-> EmptyDict, fonts |-> EmptyDict]
    ELSE [colors |-> CustomLoop(SchemeColors(doc), SrgbList(doc), 1),
          fonts |-> ThemeFonts(doc)]

-----------------------------------------------------------------------------
(* get_image_from_relationship *)

ImageExts == {".emf", ".png", ".jpg", ".jpeg", ".svg", ".bmp"}

\* str.lower() on the suffixes the model draws
Lower(s) ==
    CASE s = ".PNG" -> ".png"
      [] s = ".JPG" -> ".jpg"
      [] s = ".EMF" -> ".emf"
      [] s = ".XML" -> ".xml"
      [] OTHER -> s

\* A Target attribute is [dir, stem, suffix]: the text dir \o stem \o suffix,
\* dir being empty or ending in "/", stem \o suffix holding no "/". The empty
\* Target (also the default of a missing attribute) is NoTarget.
Target(dir, stem, suffix) == [dir |-> dir, stem |-> stem, suffix |-> suffix]
NoTarget == Target("", "", "")

\* line 423: target and any(target.lower().endswith(ext) for ext in [...])
IsImageTarget(t) == t # NoTarget /\ Lower(t.suffix) \in ImageExts

\* line 424: Path(target).name
PathName(t) == t.stem \o t.suffix

\* lines 411-415: the namespaced Relationship elements, or, when there are
\* none, the un-namespaced ones
Relationships(rels) ==
    LET pkg == SelectSeq(rels.rels, LAMBDA r : r.ns)
    IN IF pkg # <<>> THEN pkg ELSE SelectSeq(rels.rels, LAMBDA r : ~r.ns)

\* lines 421-424: a mutant that returns the first image target, whatever its id
RelLoopAnyId(rs, r_id, i) ==
    LET found == {j \in i..Len(rs) : IsImageTarget(rs[j].target)}
    IN IF found = {} THEN NoneV
       ELSE PathName(rs[CHOOSE j \in found : \A k \in found : j <= k].target)

\* lines 417-424
RECURSIVE RelLoop(_, _, _)
RelLoop(rs, r_id, i) ==
    IF i > Len(rs) THEN NoneV
    ELSE IF rs[i].id = r_id /\ IsImageTarget(rs[i].target)
        THEN PathName(rs[i].target)
    ELSE RelLoop(rs, r_id, i + 1)

\* lines 404-428: ET.ParseError is caught and gives None
get_image_from_relationship(rels, r_id) ==
    IF ~rels.wellformed THEN NoneV
    ELSE RelLoop(Relationships(rels), r_id, 1)

-----------------------------------------------------------------------------
(* find_background_image_in_xml *)

MinBgWidth == 7000000
MinBgHeight == 5000000
MaxBgOffsetX == 100000
MaxBgOffsetY == 100000

IntAttr(v) == [kind |-> "int", v |-> v]
BadAttr == [kind |-> "bad", v |-> 0]
NoAttr == [kind |-> "absent", v |-> 0]

\* int(e.get(name, '0')): the value, for an attribute int() accepts
IntOf(a) == IF a.kind = "int" THEN a.v ELSE 0

\* line 385
is_large(cx, cy) == cx > MinBgWidth /\ cy > MinBgHeight

\* line 386: a mutant that accepts an offset at the threshold
is_positioned_as_bg_Inclusive(x, y) == x <= MaxBgOffsetX /\ y <= MaxBgOffsetY

\* line 386
is_positioned_as_bg(x, y) == x < MaxBgOffsetX /\ y < MaxBgOffsetY

\* A reference is usable when the blipFill has an a:blip child whose r:embed
\* attribute is a non-empty string (lines 360-363 and 391-395).
HasRid(e) == e.blip /\ e.rid # NoneV /\ e.rid # ""

\* line 358: root.find(pattern): the first a:blipFill, in document order, that
\* the p-th pattern matches (0 when none); fill.pats is the set of patterns
\* that match the element.
RECURSIVE FirstFill(_, _, _)
FirstFill(fills, p, i) ==
    IF i > Len(fills) THEN 0
    ELSE IF p \in fills[i].pats THEN i
    ELSE FirstFill(fills, p, i + 1)

BgResult(exc, image, trace) == [exc |-> exc, image |-> image, trace |-> trace]

\* lines 371-398: the scan of the p:pic elements from the i-th on. trace is the
\* sequence of relationship lookups made so far, <<"fill" | "pic", r_id>>.
RECURSIVE PicLoop(_, _, _, _)
PicLoop(doc, rels, i, trace) ==
    IF i > Len(doc.pics) THEN BgResult("none", NoneV, trace)
    ELSE LET pic == doc.pics[i] IN
        IF ~(pic.xfrm /\ pic.off /\ pic.ext) THEN PicLoop(doc, rels, i + 1, trace)
        ELSE IF "bad" \in {pic.x.kind, pic.y.kind, pic.cx.kind, pic.cy.kind}
            THEN BgResult("ValueError", NoneV, trace)
        ELSE IF is_large(IntOf(pic.cx), IntOf(pic.cy))
                /\ is_positioned_as_bg(IntOf(pic.x), IntOf(pic.y))
                /\ pic.blipFill /\ HasRid(pic)
            THEN LET image == get_image_from_relationship(rels, pic.rid)
                     t2 == Append(trace, <<"pic", pic.rid>>)
                 IN IF image # NoneV THEN BgResult("none", image, t2)
                    ELSE PicLoop(doc, rels, i + 1, t2)
        ELSE PicLoop(doc, rels, i + 1, trace)

\* lines 357-366 alone: the four patterns from the p-th on, and no pictures
RECURSIVE FillsOnly(_, _, _, _)
FillsOnly(doc, rels, p, trace) ==
    IF p > 4 THEN BgResult("none", NoneV, trace)
    ELSE LET i == FirstFill(doc.fills, p, 1) IN
        IF i # 0 /\ HasRid(doc.fills[i])
        THEN LET image == get_image_from_relationship(rels, doc.fills[i].rid)
                 t2 == Append(trace, <<"fill", doc.fills[i].rid>>)
             IN IF image # NoneV THEN BgResult("none", image, t2)
                ELSE FillsOnly(doc, rels, p + 1, t2)
        ELSE FillsOnly(doc, rels, p + 1, trace)

\* lines 357-398: a mutant that scans the pictures before the fill patterns
FillLoopPicsFirst(doc, rels, p, trace) ==
    LET r == PicLoop(doc, rels, 1, trace) IN
    IF r.exc # "none" \/ r.image # NoneV THEN r
    ELSE FillsOnly(doc, rels, p, r.trace)

\* lines 357-369: the four patterns from the p-th on, then the pictures
RECURSIVE FillLoop(_, _, _, _)
FillLoop(doc, rels, p, trace) ==
    IF p > 4 THEN PicLoop(doc, rels, 1, trace)
    ELSE LET i == FirstFill(doc.fills, p, 1) IN
        IF i # 0 /\ HasRid(doc.fills[i])
        THEN LET image == get_image_from_relationship(rels, doc.fills[i].rid)
                 t2 == Append(trace, <<"fill", doc.fills[i].rid>>)
             IN IF image # NoneV THEN BgResult("none", image, t2)
                ELSE FillLoop(doc, rels, p + 1, t2)
        ELSE FillLoop(doc, rels, p + 1, trace)

\* lines 343-402: ET.ParseError is caught and gives None; the ValueError of
\* int() is not caught
find_background_image_in_xml(doc, rels) ==
    IF ~doc.wellformed THEN BgResult("none", NoneV, <<>>)
    ELSE FillLoop(doc, rels, 1, <<>>)

-----------------------------------------------------------------------------
(* sanitize_for_latex and str.lower *)

\* Text that the program takes apart (a layout name, a placeholder type, index
\* or key) is a sequence of one-character strings. NoName is the name None of a
\* p:cSld without a name attribute and Absent is a missing attribute of p:ph:
\* neither is such a sequence.
NoName == <<"None">>
Absent == <<"absent">>

\* pattern in text
Contains(text, pattern) ==
    \E i \in 0..(Len(text) - Len(pattern)) :
        SubSeq(text, i + 1, i + Len(pattern)) = pattern

\* text.startswith(pattern)
StartsWith(text, pattern) ==
    Len(text) >= Len(pattern) /\ SubSeq(text, 1, Len(pattern)) = pattern

UpperCase == <<"A", "B", "C", "D", "E", "F", "G", "H", "I", "J", "K", "L", "M",
               "N", "O", "P", "Q", "R", "S", "T", "U", "V", "W", "X", "Y", "Z">>
LowerCase == <<"a", "b", "c", "d", "e", "f", "g", "h", "i", "j", "k", "l", "m",
               "n", "o", "p", "q", "r", "s", "t", "u", "v", "w", "x", "y", "z">>
DigitChars == {"0", "1", "2", "3", "4", "5", "6", "7", "8", "9"}

IsAlnum(c) ==
    \/ \E i \in 1..26 : c = UpperCase[i] \/ c = LowerCase[i]
    \/ c \in DigitChars

LowerChar(c) ==
    IF \E i \in 1..26 : c = UpperCase[i]
    THEN LowerCase[CHOOSE i \in 1..26 : c = UpperCase[i]]
    ELSE c

\* str.lower()
LowerStr(t) == [i \in 1..Len(t) |-> LowerChar(t[i])]

\* lines 23-25: a mutant that keeps the spaces
sanitize_keep_spaces(text) == SelectSeq(text, LAMBDA c : IsAlnum(c) \/ c = " ")

\* lines 23-25: re.sub(r'[^a-zA-Z0-9]', '', text), for text that is a string
sanitize_for_latex(text) == SelectSeq(text, IsAlnum)

\* lines 703, 626, 869
EnvName(name) == LowerStr(sanitize_for_latex(name))

-----------------------------------------------------------------------------
(* parse_slide_layouts *)

\* A p:sp element: ph says whether it holds p:nvPr/p:ph; type and idx are the
\* attributes of p:ph (Absent when missing); xfrm, off and ext say which
\* transform elements exist and x, y, cx, cy are their attributes; color is the
\* val of the first a:solidFill/a:schemeClr below the shape (NoneV when there is
\* none: the first of the four paths of lines 252-257 matches every element the
\* other three match); sz and b are the attributes of the a:defRPr used ("none"
\* sz when there is no such element); algn and anchor are the attributes of
\* a:lvl1pPr and a:bodyPr ("absent" when the element or attribute is missing).
Shape(ph, type, idx, xfrm, x, y, cx, cy, color) ==
    [ph |-> ph, type |-> type, idx |-> idx, xfrm |-> xfrm, off |-> xfrm,
     ext |-> xfrm, x |-> x, y |-> y, cx |-> cx, cy |-> cy, color |-> color,
     sz |-> NoAttr, b |-> "absent", algn |-> "absent", anchor |-> "absent"]

\* line 223
PhType(sp) == IF sp.type = Absent THEN <<"b", "o", "d", "y">> ELSE sp.type

\* line 224
PhIdx(sp) == IF sp.idx = Absent THEN <<"0">> ELSE sp.idx

\* line 227: a mutant that ignores the index
placeholder_key_type_only(sp) == PhType(sp)

\* line 227
placeholder_key(sp) ==
    IF PhIdx(sp) # <<"0">> THEN PhType(sp) \o <<"_">> \o PhIdx(sp) ELSE PhType(sp)

\* lines 230-240, for a shape whose attributes int() accepts
ShapePosition(sp) ==
    [x |-> IF sp.xfrm /\ sp.off THEN IntOf(sp.x) ELSE 0,
     y |-> IF sp.xfrm /\ sp.off THEN IntOf(sp.y) ELSE 0,
     width |-> IF sp.xfrm /\ sp.ext THEN IntOf(sp.cx) ELSE 0,
     height |-> IF sp.xfrm /\ sp.ext THEN IntOf(sp.cy) ELSE 0]

\* lines 236-240 and 270: the int() calls that raise ValueError
ShapeRaises(sp) ==
    \/ sp.xfrm /\ sp.off /\ "bad" \in {sp.x.kind, sp.y.kind}
    \/ sp.xfrm /\ sp.ext /\ "bad" \in {sp.cx.kind, sp.cy.kind}
    \/ sp.sz.kind = "bad"

\* line 245: font_size None
NoSize == <<0, 0>>

\* lines 243-285
ShapeStyling(sp) ==
    [color |-> sp.color,
     font_size |-> IF sp.sz.kind = "int"
                   THEN Frac(sp.sz.v, 100) ELSE NoSize,
     bold |-> sp.b = "1",
     alignment |-> CASE sp.algn = "r" -> "right" [] sp.algn = "ctr" -> "center"
                     [] sp.algn = "j" -> "justify" [] OTHER -> "left",
     anchor |-> CASE sp.anchor = "b" -> "bottom" [] sp.anchor = "ctr" -> "center"
                  [] OTHER -> "top"]

\* lines 294-299
Detailed(sp) ==
    [type |-> PhType(sp), index |-> PhIdx(sp), position |-> ShapePosition(sp),
     styling |-> ShapeStyling(sp)]

\* lines 199-205; has_detailed says whether the key detailed_placeholders
\* exists (lines 291-292)
NewLayout(name) ==
    [name |-> name, color_overrides |-> EmptyDict, placeholders |-> EmptyDict,
     background_color |-> NoneV, background_image |-> NoneV,
     has_detailed |-> FALSE, detailed_placeholders |-> EmptyDict]

\* lines 220-299: the shapes from the i-th on; [exc, layout]
RECURSIVE ShapeLoop(_, _, _)
ShapeLoop(layout, shapes, i) ==
    IF i > Len(shapes) THEN [exc |-> "none", layout |-> layout]
    ELSE LET sp == shapes[i] IN
        IF ~sp.ph THEN ShapeLoop(layout, shapes, i + 1)
        ELSE IF ShapeRaises(sp) THEN [exc |-> "ValueError", layout |-> layout]
        ELSE ShapeLoop(
                [layout EXCEPT
                    !.placeholders = DictPut(@, placeholder_key(sp), sp.color),
                    !.has_detailed = TRUE,
                    !.detailed_placeholders =
                        DictPut(@, placeholder_key(sp), Detailed(sp))],
                shapes, i + 1)

\* lines 301-306
LayoutImage(layout, doc) ==
    IF ~doc.hasRels THEN [exc |-> "none", layout |-> layout]
    ELSE LET out == find_background_image_in_xml(doc, doc.rels) IN
        IF out.exc # "none" THEN [exc |-> out.exc, layout |-> layout]
        ELSE IF out.image # NoneV /\ out.image # ""
            THEN [exc |-> "none",
                  layout |-> [layout EXCEPT !.background_image = out.image]]
        ELSE [exc |-> "none", layout |-> layout]

\* lines 308-309: a mutant that also swallows ValueError
CaughtAlsoValueError(exc) == exc \in {"ParseError", "AttributeError", "ValueError"}

\* lines 308-309
Caught(exc) == exc \in {"ParseError", "AttributeError"}

\* lines 199-205: a mutant that builds on the descriptor the name already has
LayoutBodyKeeping(lmap, doc) ==
    IF ~doc.wellformed THEN [exc |-> "ParseError", layouts |-> lmap]
    ELSE IF ~doc.hasCSld THEN [exc |-> "AttributeError", layouts |-> lmap]
    ELSE LET old == DictGet(lmap, doc.name, NewLayout(doc.name))
             l0 == [old EXCEPT
                        !.color_overrides =
                            IF doc.overrides # EmptyDict THEN doc.overrides ELSE @,
                        !.background_color =
                            IF doc.bg_color # NoneV THEN doc.bg_color ELSE @]
             ls == ShapeLoop(l0, doc.shapes, 1)
             li == IF ls.exc # "none" THEN ls ELSE LayoutImage(ls.layout, doc)
         IN [exc |-> li.exc, layouts |-> DictPut(lmap, doc.name, li.layout)]

\* lines 194-306: the body of the try for one layout document; [exc, layouts].
\* The descriptor is stored under the name before anything else is read, so
\* what is built later is built in place.
LayoutBody(lmap, doc) ==
    IF ~doc.wellformed THEN [exc |-> "ParseError", layouts |-> lmap]
    ELSE IF ~doc.hasCSld THEN [exc |-> "AttributeError", layouts |-> lmap]
    ELSE LET l0 == [NewLayout(doc.name) EXCEPT
                        !.color_overrides = doc.overrides,
                        !.background_color = doc.bg_color]
             ls == ShapeLoop(l0, doc.shapes, 1)
             li == IF ls.exc # "none" THEN ls ELSE LayoutImage(ls.layout, doc)
         IN [exc |-> li.exc, layouts |-> DictPut(lmap, doc.name, li.layout)]

\* lines 193-309: one iteration of the loop over the layout documents: a caught
\* exception goes on to the next document, any other leaves the function
LayoutStep(lmap, doc) ==
    LET r == LayoutBody(lmap, doc) IN
    IF Caught(r.exc) THEN [exc |-> "none", layouts |-> r.layouts] ELSE r

-----------------------------------------------------------------------------
(* convert_ppt_to_beamer_position *)

\* line 581: the default reference page, in EMU
PaperWidth == 12192000
PaperHeight == 6858000

Position(x, y, w, h) == [x |-> x, y |-> y, width |-> w, height |-> h]

\* lines 589-592: a mutant that divides the vertical quantities by the width
convert_by_width_only(pos, paper_width, paper_height) ==
    [x_rel |-> Frac(pos.x, paper_width),
     y_rel |-> Frac(pos.y, paper_width),
     width_rel |-> Frac(pos.width, paper_width),
     height_rel |-> Frac(pos.height, paper_width),
     x_cm |-> Frac(Frac(pos.x, paper_width)[1] * 127,
                   Frac(pos.x, paper_width)[2] * 5),
     y_cm |-> Frac(Frac(pos.y, paper_width)[1] * 381,
                   Frac(pos.y, paper_width)[2] * 20),
     width_cm |-> Frac(Frac(pos.width, paper_width)[1] * 127,
                       Frac(pos.width, paper_width)[2] * 5),
     height_cm |-> Frac(Frac(pos.height, paper_width)[1] * 381,
                        Frac(pos.height, paper_width)[2] * 20)]

\* lines 581-609: 25.4 is 127/5 and 19.05 is 381/20
convert_ppt_to_beamer_position(pos, paper_width, paper_height) ==
    LET x_rel == Frac(pos.x, paper_width)
        y_rel == Frac(pos.y, paper_height)
        width_rel == Frac(pos.width, paper_width)
        height_rel == Frac(pos.height, paper_height)
    IN [x_rel |-> x_rel,
        y_rel |-> y_rel,
        width_rel |-> width_rel,
        height_rel |-> height_rel,
        x_cm |-> Frac(x_rel[1] * 127, x_rel[2] * 5),
        y_cm |-> Frac(y_rel[1] * 381, y_rel[2] * 20),
        width_cm |-> Frac(width_rel[1] * 127, width_rel[2] * 5),
        height_cm |-> Frac(height_rel[1] * 381, height_rel[2] * 20)]

-----------------------------------------------------------------------------
(* The generated files: a file is a sequence of commands *)

\* One command of a generated file: name is the environment name or the
\* placeholder key it carries (a character sequence), a and b its other
\* arguments.
OLine(op, name, a, b) == [op |-> op, name |-> name, a |-> a, b |-> b]

\* Python truthiness of an optional string
Truthy(v) == v # NoneV /\ v # ""

\* f"ppt{c}": None is formatted as the text None
Ppt(c) == "ppt" \o c

-----------------------------------------------------------------------------
(* generate_color_theme *)

\* lines 493-501
color_mappings ==
    << <<"normal text", "dk1", "lt1">>, <<"structure", "accent1", "dk1">>,
       <<"frametitle", "lt1", "dk1">>, <<"framesubtitle", "accent1", "">>,
       <<"title", "dk1", "lt1">>, <<"block title", "lt1", "accent2">>,
       <<"block body", "black", "dk1">> >>

\* lines 483-485
DefineColors(colors) ==
    LET named == SelectSeq(colors, LAMBDA kv : Truthy(kv[2]))
    IN [i \in 1..Len(named) |->
            OLine("definecolor", <<>>, Ppt(named[i][1]), named[i][2])]

\* lines 503-511
ColorAssignment(colors, mp) ==
    LET fg == IF DictHas(colors, mp[2]) THEN Ppt(mp[2]) ELSE "black"
        bg == IF DictHas(colors, mp[3]) THEN Ppt(mp[3]) ELSE "white"
    IN IF mp[3] = ""
       THEN OLine("setbeamercolor", <<>>, mp[1], "fg=" \o fg)
       ELSE OLine("setbeamercolor", <<>>, mp[1], "fg=" \o fg \o ",bg=" \o bg)

\* lines 468-513
generate_color_theme(colors) ==
    IF colors = EmptyDict
    THEN <<OLine("comment", <<>>, "No colors found in PowerPoint theme", "")>>
    ELSE DefineColors(colors)
         \o [i \in 1..Len(color_mappings) |-> ColorAssignment(colors, color_mappings[i])]

-----------------------------------------------------------------------------
(* generate_font_theme *)

\* lines 519-531: get_compatible_font on the font names the model draws
get_compatible_font(font_name) ==
    CASE ~Truthy(font_name) -> "Helvetica"
      [] font_name \in {"Calibri", "Calibri Light", "Arial"} -> "Helvetica"
      [] font_name \in {"Times New Roman", "Cambria"} -> "Times"
      [] OTHER -> font_name

\* line 545: the position in sans_serif_candidates of the first candidate the
\* font name contains, on the font names the model draws; 0 when it holds none
CandidateRank(sf) ==
    CASE sf = "Arial" -> 1
      [] sf = "Helvetica Neue" -> 2
      [] sf \in {"Calibri", "Calibri Light"} -> 3
      [] OTHER -> 0

\* lines 543-551: slide_fonts is sorted; the candidates are tried in order and
\* the first font holding the candidate is taken, until the name has changed
RECURSIVE SlideMinor(_, _, _, _)
SlideMinor(slide_fonts, theme_minor, current, cand) ==
    IF cand > 6 THEN current
    ELSE LET hits == {i \in 1..Len(slide_fonts) : CandidateRank(slide_fonts[i]) = cand}
             chosen == IF hits = {} THEN current
                       ELSE slide_fonts[CHOOSE i \in hits : \A j \in hits : i <= j]
         IN IF chosen # theme_minor THEN chosen
            ELSE SlideMinor(slide_fonts, theme_minor, chosen, cand + 1)

\* lines 515-579
generate_font_theme(fonts, slide_fonts) ==
    LET major_font_name == DictGet(fonts, "major", "Times New Roman")
        theme_minor == DictGet(fonts, "minor", "Arial")
        minor_font_name == IF slide_fonts # <<>>
                           THEN SlideMinor(slide_fonts, theme_minor, theme_minor, 1)
                           ELSE theme_minor
    IN << OLine("comment", <<>>, major_font_name, minor_font_name) >>
       \o (IF slide_fonts # <<>>
           THEN <<OLine("comment", <<>>, "Fonts found in slides", "")>> ELSE <<>>)
       \o << OLine("setsansfont", <<>>, get_compatible_font(minor_font_name), ""),
             OLine("setmainfont", <<>>, get_compatible_font(minor_font_name), ""),
             OLine("newfontfamily", <<>>, "titlefont", get_compatible_font(major_font_name)) >>

-----------------------------------------------------------------------------
(* generate_beamer_frame_template *)

\* f"{q:.3f}" of the float the rational q stands for: the sign and the number
\* of thousandths, by long division and rounding to nearest. A value half way
\* between two thousandths goes to the even one, which is what the format gives
\* when the float is exact.
Fmt3(q) ==
    LET n == Abs(q[1])
        d == q[2]
        whole == n \div d
        r0 == n % d
        d1 == (r0 * 10) \div d
        r1 == (r0 * 10) % d
        d2 == (r1 * 10) \div d
        r2 == (r1 * 10) % d
        d3 == (r2 * 10) \div d
        r3 == (r2 * 10) % d
        down == whole * 1000 + d1 * 100 + d2 * 10 + d3
        up == IF r3 * 2 > d THEN 1
              ELSE IF r3 * 2 = d /\ down % 2 = 1 THEN 1 ELSE 0
    IN [neg |-> q[1] < 0, milli |-> down + up]

\* lines 619-622: sorted() is stable; item goes after the items whose y is not
\* greater
InsertByY(sorted, item) ==
    LET k == Cardinality({j \in 1..Len(sorted) :
                            sorted[j][2].position.y <= item[2].position.y})
    IN SubSeq(sorted, 1, k) \o <<item>> \o SubSeq(sorted, k + 1, Len(sorted))

\* lines 619-622: a mutant that leaves the placeholders in insertion order
KeepInsertionOrder(items, i, acc) == items

RECURSIVE SortByY(_, _, _)
SortByY(items, i, acc) ==
    IF i > Len(items) THEN acc
    ELSE SortByY(items, i + 1, InsertByY(acc, items[i]))

\* lines 646 and 655: the positioned node of a placeholder
Node(key, text, bp) ==
    [op |-> "node", name |-> key, a |-> text, b |-> "",
     width |-> Fmt3(bp.width_rel), xshift |-> Fmt3(bp.x_rel),
     yshift |-> Fmt3(bp.y_rel)]

\* line 652
IsSubtitleKey(key) ==
    \/ Contains(key, <<"1", "8">>)
    \/ Contains(LowerStr(key), <<"s", "u", "b", "t", "i", "t", "l", "e">>)

\* lines 652-659: a mutant that writes the subtitle node without its test
PlaceholderNodeUntested(item) ==
    LET key == item[1]
        info == item[2]
        bp == convert_ppt_to_beamer_position(info.position, PaperWidth, PaperHeight)
    IN IF info.position.width = 0 \/ info.position.height = 0 THEN <<>>
       ELSE IF info.type = <<"t", "i", "t", "l", "e">>
            THEN <<Node(key, "insertframetitle", bp)>>
       ELSE IF info.type = <<"b", "o", "d", "y">> /\ IsSubtitleKey(key)
            THEN <<Node(key, "insertframesubtitle", bp)>>
       ELSE <<>>

\* lines 632-659: what one placeholder adds to the overlay
PlaceholderNode(item) ==
    LET key == item[1]
        info == item[2]
        bp == convert_ppt_to_beamer_position(info.position, PaperWidth, PaperHeight)
    IN IF info.position.width = 0 \/ info.position.height = 0 THEN <<>>
       ELSE IF info.type = <<"t", "i", "t", "l", "e">>
            THEN <<Node(key, "insertframetitle", bp)>>
       ELSE IF info.type = <<"b", "o", "d", "y">> /\ IsSubtitleKey(key)
            THEN << OLine("ifx", key, "insertframesubtitle", ""),
                    Node(key, "insertframesubtitle", bp),
                    OLine("fi", key, "", "") >>
       ELSE <<>>

RECURSIVE OverlayNodes(_, _)
OverlayNodes(sorted, i) ==
    IF i > Len(sorted) THEN <<>>
    ELSE PlaceholderNode(sorted[i]) \o OverlayNodes(sorted, i + 1)

\* lines 611-672, for a layout name that is a string
generate_beamer_frame_template(layout_name, detailed_placeholders) ==
    IF detailed_placeholders = EmptyDict THEN <<>>
    ELSE << OLine("defbeamertemplate", EnvName(layout_name), "frametitle", ""),
            OLine("begin", <<>>, "tikzpicture", "") >>
         \o OverlayNodes(SortByY(detailed_placeholders, 1, <<>>), 1)
         \o << OLine("end", <<>>, "tikzpicture", ""),
               OLine("enddefbeamertemplate", EnvName(layout_name), "frametitle", ""),
               OLine("defbeamertemplate", EnvName(layout_name), "framesubtitle", ""),
               OLine("enddefbeamertemplate", EnvName(layout_name), "framesubtitle", "") >>

-----------------------------------------------------------------------------
(* generate_outer_theme *)

\* lines 718-719, 742-743, 767-768, 773-774, 782-783
ThroughOverrides(overrides, c) ==
    IF overrides # EmptyDict THEN DictGet(overrides, c, c) ELSE c

\* Path(image).stem and .suffix, on the image names the model draws
ImageParts(image) ==
    CASE image = "image1.png" -> <<"image1", ".png">>
      [] image = "image2.JPG" -> <<"image2", ".JPG">>
      [] image = "image3.emf" -> <<"image3", ".emf">>
      [] image = "image4.svg" -> <<"image4", ".svg">>

\* lines 735-737
img_path(image) ==
    IF Lower(ImageParts(image)[2]) = ".emf"
    THEN ImageParts(image)[1] \o ".pdf" ELSE image

\* lines 739-750: a mutant that puts the image under the colour rectangle
CompositeImageFirst(d) ==
    << OLine("usebackgroundtemplate", <<>>, "begin", ""),
       OLine("includegraphics", <<>>, img_path(d.background_image), ""),
       OLine("rule", <<>>,
             Ppt(ThroughOverrides(d.color_overrides, d.background_color)), ""),
       OLine("usebackgroundtemplate", <<>>, "end", "") >>

\* lines 739-750
Composite(d) ==
    << OLine("usebackgroundtemplate", <<>>, "begin", ""),
       OLine("rule", <<>>,
             Ppt(ThroughOverrides(d.color_overrides, d.background_color)), ""),
       OLine("includegraphics", <<>>, img_path(d.background_image), ""),
       OLine("usebackgroundtemplate", <<>>, "end", "") >>

\* lines 733-757
BackgroundTemplate(d) ==
    IF Truthy(d.background_image)
    THEN IF Truthy(d.background_color) THEN Composite(d)
         ELSE << OLine("usebackgroundtemplate", <<>>, "begin", ""),
                 OLine("includegraphics", <<>>, img_path(d.background_image), ""),
                 OLine("usebackgroundtemplate", <<>>, "end", "") >>
    ELSE IF ~Truthy(d.background_color)
         THEN << OLine("usebackgroundtemplate", <<>>, "begin", ""),
                 OLine("usebackgroundtemplate", <<>>, "end", "") >>
    ELSE <<>>

\* lines 714-721
CanvasColor(d) ==
    IF Truthy(d.background_color) /\ ~Truthy(d.background_image)
    THEN <<OLine("setbeamercolor", <<>>, "background canvas",
                 "bg=" \o Ppt(ThroughOverrides(d.color_overrides, d.background_color)))>>
    ELSE <<>>

\* lines 723-731
TextColors(d) ==
    IF d.color_overrides # EmptyDict /\ Truthy(d.background_image)
    THEN << OLine("setbeamercolor", <<>>, "normal text",
                  "fg=" \o Ppt(DictGet(d.color_overrides, "tx1", "tx1"))),
            OLine("setbeamercolor", <<>>, "structure",
                  "fg=" \o Ppt(DictGet(d.color_overrides, "tx2", "tx2"))) >>
    ELSE <<>>

\* lines 762-769
TitleColor(d) ==
    LET found == DictGet(d.placeholders, <<"t", "i", "t", "l", "e">>, NoneV)
        title_color == IF ~Truthy(found) THEN "tx2" ELSE found
    IN <<OLine("setbeamercolor", <<>>, "frametitle",
               "fg=" \o Ppt(ThroughOverrides(d.color_overrides, title_color)))>>

\* lines 771-775
BodyColor(d) ==
    LET body_color == DictGet(d.placeholders, <<"b", "o", "d", "y">>, "tx2")
    IN <<OLine("setbeamercolor", <<>>, "item",
               "fg=" \o Ppt(ThroughOverrides(d.color_overrides, body_color)))>>

\* lines 779-786: a mutant that goes on after a match and keeps the last one
LastSubtitle(placeholders, i) ==
    LET found == {j \in i..Len(placeholders) :
                    \/ Contains(placeholders[j][1], <<"s", "u", "b", "t", "i", "t", "l", "e">>)
                    \/ placeholders[j][2] = "accent1"}
    IN IF found = {} THEN 0 ELSE CHOOSE j \in found : \A k \in found : k <= j

\* lines 779-780: the first placeholder, from the i-th on, whose key holds
\* "subtitle" or whose colour is accent1; 0 when there is none
RECURSIVE FirstSubtitle(_, _)
FirstSubtitle(placeholders, i) ==
    IF i > Len(placeholders) THEN 0
    ELSE IF \/ Contains(placeholders[i][1], <<"s", "u", "b", "t", "i", "t", "l", "e">>)
            \/ placeholders[i][2] = "accent1"
         THEN i
    ELSE FirstSubtitle(placeholders, i + 1)

\* lines 777-793
SubtitleColor(d) ==
    LET i == FirstSubtitle(d.placeholders, 1) IN
    IF i # 0
    THEN <<OLine("setbeamercolor", <<>>, "framesubtitle",
                 "fg=" \o Ppt(ThroughOverrides(d.color_overrides, d.placeholders[i][2])))>>
    ELSE IF \E j \in 1..Len(d.placeholders) : d.placeholders[j][2] = "accent1"
         THEN <<OLine("setbeamercolor", <<>>, "framesubtitle", "fg=pptaccent1")>>
    ELSE <<>>

\* lines 795-802
PlaceholderColors(d) ==
    LET own == SelectSeq(d.placeholders, LAMBDA kv :
                   StartsWith(kv[1], <<"p", "l", "a", "c", "e", "h", "o", "l", "d",
                                       "e", "r", "_">>))
    IN [i \in 1..Len(own) |->
            OLine("setbeamercolor", own[i][1], "", "fg=" \o Ppt(own[i][2]))]

\* lines 707-708: detailed_placeholders exists and is not empty
HasDetailed(d) == d.has_detailed /\ d.detailed_placeholders # EmptyDict

\* lines 703-814: what one layout with a string name adds to the file
LayoutEnvironment(layout_name, d) ==
    <<OLine("newenvironment", EnvName(d.name), "", "")>>
    \o (IF HasDetailed(d)
        THEN << OLine("setbeamertemplate", EnvName(d.name), "frametitle", ""),
                OLine("setbeamertemplate", EnvName(d.name), "framesubtitle", "") >>
        ELSE <<>>)
    \o CanvasColor(d)
    \o TextColors(d)
    \o BackgroundTemplate(d)
    \o TitleColor(d)
    \o BodyColor(d)
    \o SubtitleColor(d)
    \o PlaceholderColors(d)
    \o <<OLine("endenvironment", EnvName(d.name), "", "")>>
    \o (IF HasDetailed(d)
        THEN generate_beamer_frame_template(layout_name, d.detailed_placeholders)
        ELSE <<>>)

\* lines 702-814: the layouts from the i-th on; sanitize_for_latex raises
\* TypeError on the name None, before anything of that layout is written
RECURSIVE OuterLoop(_, _, _)
OuterLoop(lmap, i, lines) ==
    IF i > Len(lmap) THEN [exc |-> "none", lines |-> lines]
    ELSE IF lmap[i][2].name = NoName THEN [exc |-> "TypeError", lines |-> lines]
    ELSE OuterLoop(lmap, i + 1, lines \o LayoutEnvironment(lmap[i][1], lmap[i][2]))

\* lines 674-816: [exc, lines], lines being what the file holds when the
\* function is left
generate_outer_theme(lmap) ==
    LET needs_tikz == \E i \in 1..Len(lmap) : HasDetailed(lmap[i][2])
        header == (IF needs_tikz
                   THEN <<OLine("RequirePackage", <<>>, "tikz", "")>> ELSE <<>>)
                  \o <<OLine("setbeamertemplate", <<>>, "frametitle", "default")>>
        body == OuterLoop(lmap, 1, header)
    IN IF body.exc # "none" THEN body
       ELSE [exc |-> "none", lines |-> Append(body.lines, OLine("mode", <<>>, "all", ""))]

-----------------------------------------------------------------------------
(* generate_inner_theme, generate_main_theme_file *)

\* lines 818-830
generate_inner_theme ==
    << OLine("setbeamertemplate", <<>>, "blocks", "rounded"),
       OLine("setbeamertemplate", <<>>, "itemize items", "circle") >>

\* lines 832-846
generate_main_theme_file ==
    << OLine("usecolortheme", <<>>, "", ""), OLine("usefonttheme", <<>>, "", ""),
       OLine("useinnertheme", <<>>, "", ""), OLine("useoutertheme", <<>>, "", "") >>

-----------------------------------------------------------------------------
(* generate_example_file *)

\* lines 876-879
ExampleSubtitle(layout_name) ==
    IF Contains(layout_name, <<"1", " ", "C", "o", "l", "u", "m", "n", " ", "-", " ",
                               "S", "u", "b", "h", "e", "a", "d">>)
    THEN <<OLine("framesubtitle", <<>>, "This is the blue subtitle text", "")>>
    ELSE IF Contains(layout_name, <<"E", "x", "e", "c", "u", "t", "i", "v", "e", " ",
                                    "S", "u", "m", "m", "a", "r", "y">>)
    THEN <<OLine("framesubtitle", <<>>, "Key Takeaways for Q3 2024", "")>>
    ELSE <<>>

\* lines 868-885: the frame of one layout with a string name
ExampleFrame(layout_name, d) ==
    << OLine("begin", EnvName(d.name), "", ""),
       OLine("frametitle", layout_name, "", "") >>
    \o ExampleSubtitle(layout_name)
    \o (IF Truthy(d.background_image)
        THEN <<OLine("text", <<>>, "background image", d.background_image)>>
        ELSE <<>>)
    \o <<OLine("end", EnvName(d.name), "", "")>>

RECURSIVE ExampleLoop(_, _, _)
ExampleLoop(lmap, i, lines) ==
    IF i > Len(lmap) THEN [exc |-> "none", lines |-> lines]
    ELSE IF lmap[i][2].name = NoName THEN [exc |-> "TypeError", lines |-> lines]
    ELSE ExampleLoop(lmap, i + 1, lines \o ExampleFrame(lmap[i][1], lmap[i][2]))

\* lines 848-887: [exc, lines]
generate_example_file(lmap) ==
    LET body == ExampleLoop(lmap, 1, <<OLine("begin", <<>>, "document", "")>>)
    IN IF body.exc # "none" THEN body
       ELSE [exc |-> "none",
             lines |-> Append(body.lines, OLine("end", <<>>, "document", ""))]

-----------------------------------------------------------------------------
(* generate_conversion_report *)

\* lines 897-906
ReportColors(colors) ==
    IF colors = EmptyDict
    THEN <<OLine("item", <<>>, "No colors extracted", "")>>
    ELSE LET shown == SubSeq(colors, 1, IF Len(colors) > 10 THEN 10 ELSE Len(colors))
         IN [i \in 1..Len(shown) |-> OLine("color", <<>>, shown[i][1], shown[i][2])]
            \o (IF Len(colors) > 10
                THEN <<OLine("item", <<>>, "more colors", "")>> ELSE <<>>)

\* lines 908-916
ReportFonts(fonts, slide_fonts) ==
    (IF fonts # EmptyDict
     THEN [i \in 1..Len(fonts) |-> OLine("theme font", <<>>, fonts[i][1], fonts[i][2])]
     ELSE <<>>)
    \o [i \in 1..Len(slide_fonts) |-> OLine("slide font", <<>>, slide_fonts[i], "")]
    \o (IF fonts = EmptyDict /\ slide_fonts = <<>>
        THEN <<OLine("item", <<>>, "No fonts detected", "")>> ELSE <<>>)

\* lines 918-930
ReportLayout(layout_name, d) ==
    <<OLine("layout", layout_name, "", "")>>
    \o (IF Truthy(d.background_color)
        THEN <<OLine("item", <<>>, "Background Color", d.background_color)>> ELSE <<>>)
    \o (IF Truthy(d.background_image)
        THEN <<OLine("item", <<>>, "Background Image", d.background_image)>> ELSE <<>>)
    \o (IF d.placeholders # EmptyDict
        THEN <<[op |-> "item", name |-> <<>>, a |-> "Placeholders", b |-> "",
                dict |-> d.placeholders]>> ELSE <<>>)
    \o (IF d.color_overrides # EmptyDict
        THEN <<[op |-> "item", name |-> <<>>, a |-> "Color Overrides", b |-> "",
                dict |-> d.color_overrides]>> ELSE <<>>)

RECURSIVE ReportLayouts(_, _)
ReportLayouts(lmap, i) ==
    IF i > Len(lmap) THEN <<>>
    ELSE ReportLayout(lmap[i][1], lmap[i][2]) \o ReportLayouts(lmap, i + 1)

\* lines 889-943
generate_conversion_report(colors, fonts, slide_fonts, lmap) ==
    ReportColors(colors) \o ReportFonts(fonts, slide_fonts) \o ReportLayouts(lmap, 1)

-----------------------------------------------------------------------------
(* extract_fonts_from_slides *)

\* the typefaces the model draws, in the order sorted() gives them
FontOrder == <<"Arial", "Calibri", "Calibri Light", "Comic Sans MS",
               "Helvetica Neue", "Times New Roman">>

\* lines 112-125: the typefaces of the a:latin elements of the documents that
\* parse; latin holds NoneV for an element without the attribute
FontsFound(docs) ==
    UNION {{docs[i].latin[j] : j \in 1..Len(docs[i].latin)} \ {NoneV, ""} :
            i \in {k \in 1..Len(docs) : docs[k].wellformed}}

\* lines 92-127: slides, then masters, then layouts
extract_fonts_from_slides(slides, masters, layoutDocs) ==
    SelectSeq(FontOrder, LAMBDA f : f \in FontsFound(slides \o masters \o layoutDocs))

-----------------------------------------------------------------------------
(* parse_slide_master_styling *)

\* A p:sp or p:pic of a master: xfrm and off say which transform elements
\* exist, y is the y attribute of a:off, cNvPr says whether p:cNvPr exists and
\* name is its name attribute.
MasterShape(xfrm, off, y, cNvPr, name) ==
    [xfrm |-> xfrm, off |-> off, y |-> y, cNvPr |-> cNvPr, name |-> name]

FooterThreshold == 5500000

\* lines 131-135
NoStyling ==
    [has_footer_elements |-> FALSE, title_positioning |-> "default",
     footer_elements |-> <<>>]

\* lines 166-173
FooterElement(shape) ==
    IF ~shape.cNvPr THEN <<>>
    ELSE IF Contains(LowerStr(shape.name), <<"r", "e", "c", "t", "a", "n", "g", "l", "e">>)
         THEN <<"background_rect">>
    ELSE IF \/ Contains(LowerStr(shape.name), <<"p", "i", "c", "t", "u", "r", "e">>)
            \/ Contains(LowerStr(shape.name), <<"l", "o", "g", "o">>)
         THEN <<"logo">>
    ELSE <<>>

\* lines 155-173: the shapes of one master from the i-th on; int() raises
\* ValueError on an ill-formed y
RECURSIVE MasterShapes(_, _, _)
MasterShapes(info, shapes, i) ==
    IF i > Len(shapes) THEN [exc |-> "none", styling_info |-> info]
    ELSE LET shape == shapes[i] IN
        IF ~(shape.xfrm /\ shape.off) THEN MasterShapes(info, shapes, i + 1)
        ELSE IF shape.y.kind = "bad" THEN [exc |-> "ValueError", styling_info |-> info]
        ELSE IF IntOf(shape.y) > FooterThreshold
             THEN MasterShapes(
                    [info EXCEPT !.has_footer_elements = TRUE,
                                 !.footer_elements = @ \o FooterElement(shape)],
                    shapes, i + 1)
        ELSE MasterShapes(info, shapes, i + 1)

\* lines 147-176: the masters from the i-th on; only ET.ParseError is caught
RECURSIVE MastersLoop(_, _, _)
MastersLoop(info, masters, i) ==
    IF i > Len(masters) THEN [exc |-> "none", styling_info |-> info]
    ELSE IF ~masters[i].wellformed THEN MastersLoop(info, masters, i + 1)
    ELSE LET r == MasterShapes(info, masters[i].shapes, 1) IN
         IF r.exc # "none" THEN r ELSE MastersLoop(r.styling_info, masters, i + 1)

\* lines 129-178
parse_slide_master_styling(masters) == MastersLoop(NoStyling, masters, 1)

-----------------------------------------------------------------------------
(* parse_slide_layouts over a whole directory *)

\* lines 193-311: the documents from the i-th on
RECURSIVE LayoutsLoop(_, _, _)
LayoutsLoop(lmap, docs, i) ==
    IF i > Len(docs) THEN [exc |-> "none", layouts |-> lmap]
    ELSE LET r == LayoutStep(lmap, docs[i]) IN
         IF r.exc # "none" THEN r ELSE LayoutsLoop(r.layouts, docs, i + 1)

\* lines 180-311
parse_slide_layouts(docs) == LayoutsLoop(EmptyDict, docs, 1)

-----------------------------------------------------------------------------
(* convert_emf_to_pdf *)

\* lines 432-464: files are the media files copied into the output directory,
\* tool (inkscape) is "absent", "works" or "fails"; a file that is converted
\* gets a .pdf next to it
convert_emf_to_pdf(files, tool) ==
    LET emf_files == SelectSeq(files, LAMBDA f : ImageParts(f[1])[2] = ".emf")
    IN IF tool = "works"
       THEN files \o [i \in 1..Len(emf_files) |->
                        <<ImageParts(emf_files[i][1])[1] \o ".pdf", "media">>]
       ELSE files

-----------------------------------------------------------------------------
(* Theme harness: draws a theme document and parses it *)

MaxScheme == 2
MaxExtra == 1

SlotTags == {"lt1", "dk1", "dk2", "bg1", "bg2", "tx1", "tx2"}
HexVals == {"AAAAAA", "BBBBBB"}

SchemeChildren ==
    {SchemeChild(t, "srgb", v) : t \in SlotTags, v \in HexVals \cup {NoneV}}
    \cup {SchemeChild(t, "sys", NoneV) : t \in SlotTags}
    \cup {SchemeChild(t, "none", NoneV) : t \in SlotTags}

ThemeDocOf(ex, wf, hs, sch, extra, maj, min) ==
    [exists |-> ex, wellformed |-> wf, hasScheme |-> hs, scheme |-> sch,
     extra |-> extra, major |-> maj, minor |-> min]

NoThemeDoc == ThemeDocOf(FALSE, FALSE, FALSE, <<>>, <<>>, "absent", "absent")
BadThemeDoc == ThemeDocOf(TRUE, FALSE, FALSE, <<>>, <<>>, "absent", "absent")

ThemeDocs ==
    {NoThemeDoc, BadThemeDoc}
    \cup {ThemeDocOf(TRUE, TRUE, TRUE, sch, ex, "Calibri", "absent") :
            sch \in SeqsUpTo(SchemeChildren, MaxScheme),
            ex \in SeqsUpTo({"AAAAAA", "CCCCCC"}, MaxExtra)}

ThemeInit ==
    /\ tpc = "idle"
    /\ themeDoc = NoThemeDoc
    /\ themeOut = [colors |-> EmptyDict, fonts |-> EmptyDict]

ParseTheme ==
    /\ tpc = "idle"
    /\ \E d \in ThemeDocs :
        /\ themeDoc' = d
        /\ themeOut' = parse_theme_xml(d)
    /\ tpc' = "done"
    /\ UNCHANGED notTheme

-----------------------------------------------------------------------------
(* Locator harness: draws a document and its relationships and searches it *)

MaxFills == 2
MaxPics == 2

Rel(ns, id, target) == [ns |-> ns, id |-> id, target |-> target]
RelsDocOf(wf, rels) == [wellformed |-> wf, rels |-> rels]

RelsA == RelsDocOf(TRUE, <<
    Rel(TRUE, "rId1", Target("../media/", "image1", ".png")),
    Rel(TRUE, "rId2", Target("../media/", "image2", ".JPG")),
    Rel(TRUE, "rId3", Target("../slideMasters/", "slideMaster1", ".xml"))>>)
RelsB == RelsDocOf(FALSE, <<>>)
RelsC == RelsDocOf(TRUE, <<
    Rel(TRUE, "rId1", Target("", "notes", ".XML")),
    Rel(TRUE, "rId1", Target("media/", "image3", ".emf")),
    Rel(TRUE, "rId2", Target("", "image1", ".png"))>>)
RelsD == RelsDocOf(TRUE, <<
    Rel(FALSE, "rId1", Target("../media/", "image4", ".svg")),
    Rel(TRUE, "rId2", Target("../media/", "image2", ".JPG")),
    Rel(TRUE, "rId3", NoTarget)>>)
RelsDocs == {RelsA, RelsB, RelsC, RelsD}

Fill(pats, blip, rid) == [pats |-> pats, blip |-> blip, rid |-> rid]
FillOptions ==
    { Fill({1, 2, 3}, TRUE, "rId1"), Fill({4}, TRUE, "rId3"),
      Fill({2}, TRUE, "rId2"), Fill({1, 2, 3}, FALSE, NoneV),
      Fill({3}, TRUE, NoneV) }

Pic(xfrm, off, ext, x, y, cx, cy, blipFill, blip, rid) ==
    [xfrm |-> xfrm, off |-> off, ext |-> ext, x |-> x, y |-> y, cx |-> cx,
     cy |-> cy, blipFill |-> blipFill, blip |-> blip, rid |-> rid]
PagePic(rid) ==
    Pic(TRUE, TRUE, TRUE, IntAttr(0), IntAttr(0), IntAttr(12192000),
        IntAttr(6858000), TRUE, TRUE, rid)
PicOptions ==
    { PagePic("rId2"), PagePic("rId3"),
      [PagePic("rId2") EXCEPT !.blipFill = FALSE],
      [PagePic("rId2") EXCEPT !.cx = IntAttr(3000000)],
      [PagePic("rId2") EXCEPT !.x = BadAttr],
      [PagePic("rId1") EXCEPT !.x = NoAttr, !.y = IntAttr(0 - 5000)] }

BgDocOf(wf, fills, pics) == [wellformed |-> wf, fills |-> fills, pics |-> pics]
NoBgDoc == BgDocOf(FALSE, <<>>, <<>>)
BgDocs ==
    {NoBgDoc}
    \cup {BgDocOf(TRUE, f, p) : f \in SeqsUpTo(FillOptions, MaxFills),
                                p \in SeqsUpTo(PicOptions, MaxPics)}

\* One picture, each quantity one below, at, or one above its threshold.
Around(t) == {t - 1, t, t + 1}
ThresholdPics ==
    { Pic(TRUE, TRUE, TRUE, IntAttr(x), IntAttr(y), IntAttr(cx), IntAttr(cy),
          TRUE, TRUE, "rId2") :
        x \in Around(MaxBgOffsetX), y \in Around(MaxBgOffsetY),
        cx \in Around(MinBgWidth), cy \in Around(MinBgHeight) }
ThresholdDocs == {BgDocOf(TRUE, <<>>, <<p>>) : p \in ThresholdPics}

LocatorInit ==
    /\ lpc = "idle"
    /\ bgDoc = NoBgDoc
    /\ bgRels = RelsB
    /\ bgOut = BgResult("none", NoneV, <<>>)

Locate ==
    /\ lpc = "idle"
    /\ \E d \in BgDocs, r \in RelsDocs :
        /\ bgDoc' = d
        /\ bgRels' = r
        /\ bgOut' = find_background_image_in_xml(d, r)
    /\ lpc' = "done"
    /\ UNCHANGED notLoc

LocateThreshold ==
    /\ lpc = "idle"
    /\ \E d \in ThresholdDocs :
        /\ bgDoc' = d
        /\ bgRels' = RelsA
        /\ bgOut' = find_background_image_in_xml(d, RelsA)
    /\ lpc' = "done"
    /\ UNCHANGED notLoc

-----------------------------------------------------------------------------
(* find_background_images *)

MaxDocs == 3

\* lines 337-339: a mutant that registers the image again when it is known
RegisterAgain(bgs, image_name) ==
    IF image_name # NoneV /\ image_name # ""
    THEN DictPut(bgs, image_name, "usebackground" \o NumStr(Len(bgs) + 1))
    ELSE bgs

\* lines 337-339
Register(bgs, image_name) ==
    IF image_name # NoneV /\ image_name # "" /\ ~DictHas(bgs, image_name)
    THEN DictPut(bgs, image_name, "usebackground" \o NumStr(Len(bgs) + 1))
    ELSE bgs

\* The documents a directory may hold: at most one fill and one picture each.
RegDocs ==
    {NoBgDoc}
    \cup {BgDocOf(TRUE, f, p) : f \in SeqsUpTo(FillOptions, 1),
                               p \in SeqsUpTo(PicOptions, 1)}

\* line 316
RegistryInit ==
    /\ rpc = "masters"
    /\ backgrounds = EmptyDict
    /\ scanned = 0
    /\ seen = <<>>

\* lines 333-339: one document of the directory being scanned, with its
\* relationship file
ScanDocument ==
    /\ rpc \in {"masters", "layouts"}
    /\ scanned < MaxDocs
    /\ \E d \in RegDocs, r \in RelsDocs :
        LET out == find_background_image_in_xml(d, r) IN
        /\ rpc' = IF out.exc # "none" THEN "raised" ELSE rpc
        /\ backgrounds' = IF out.exc # "none" THEN backgrounds
                          ELSE Register(backgrounds, out.image)
        /\ seen' = IF out.exc = "none" /\ out.image # NoneV
                   THEN Append(seen, <<out.image, out.trace[Len(out.trace)][2]>>)
                   ELSE seen
    /\ scanned' = scanned + 1
    /\ UNCHANGED notReg

\* lines 334-335: a document without a relationship file is passed over
ScanDocumentNoRels ==
    /\ rpc \in {"masters", "layouts"}
    /\ scanned < MaxDocs
    /\ scanned' = scanned + 1
    /\ UNCHANGED <<rpc, backgrounds, seen>>
    /\ UNCHANGED notReg

\* lines 329-331: the directory is exhausted (or does not exist)
NextDirectory ==
    /\ rpc \in {"masters", "layouts"}
    /\ rpc' = IF rpc = "masters" THEN "layouts" ELSE "returned"
    /\ UNCHANGED <<backgrounds, scanned, seen>>
    /\ UNCHANGED notReg

-----------------------------------------------------------------------------
(* Converter harness *)

\* Converter harness: draws a position and converts it against the default page
Positions ==
    {Position(x, y, w, h) :
        x \in {0, 1, 914400, 12192000}, y \in {0, 0 - 5000, 3429000, 6858000},
        w \in {0, 1, 6096000, 12192000}, h \in {0, 2286000, 6858000}}

ConverterInit ==
    /\ cpc = "idle"
    /\ position = Position(0, 0, 0, 0)
    /\ beamer_pos = convert_ppt_to_beamer_position(Position(0, 0, 0, 0),
                                                   PaperWidth, PaperHeight)

Convert ==
    /\ cpc = "idle"
    /\ \E pos \in Positions :
        /\ position' = pos
        /\ beamer_pos' = convert_ppt_to_beamer_position(pos, PaperWidth, PaperHeight)
    /\ cpc' = "done"
    /\ UNCHANGED notConv

-----------------------------------------------------------------------------
(* Layout harness: the layout directory is read one document at a time *)

MaxLayoutDocs == 2

TitleSlideName == <<"T", "i", "t", "l", "e", " ", "S", "l", "i", "d", "e">>
TitleSlideJoined == <<"T", "i", "t", "l", "e", "S", "l", "i", "d", "e">>
BlankName == <<"B", "l", "a", "n", "k">>
TitleType == <<"t", "i", "t", "l", "e">>
BodyType == <<"b", "o", "d", "y">>
Idx18 == <<"1", "8">>

\* a title placeholder covering the whole page
FullPageTitle(color) ==
    Shape(TRUE, TitleType, Absent, TRUE, IntAttr(0), IntAttr(0),
          IntAttr(12192000), IntAttr(6858000), color)

\* a body placeholder below the top of the page
BodyShape(type, idx, color) ==
    Shape(TRUE, type, idx, TRUE, IntAttr(914400), IntAttr(3429000),
          IntAttr(6096000), IntAttr(2286000), color)

\* a shape that is no placeholder; its ill-formed offset is never read
PlainShape ==
    Shape(FALSE, Absent, Absent, TRUE, BadAttr, IntAttr(0), IntAttr(1),
          IntAttr(1), NoneV)

ShapeLists ==
    { <<>>,
      <<FullPageTitle(NoneV)>>,
      <<FullPageTitle("accent1"), PlainShape>>,
      <<BodyShape(Absent, Idx18, "accent1"), FullPageTitle(NoneV)>>,
      <<BodyShape(BodyType, Absent, NoneV), BodyShape(Absent, Absent, "tx1")>> }

LayoutDocOf(name, overrides, bg_color, shapes) ==
    [wellformed |-> TRUE, hasCSld |-> TRUE, name |-> name,
     overrides |-> overrides, bg_color |-> bg_color, shapes |-> shapes,
     hasRels |-> FALSE, rels |-> RelsB, fills |-> <<>>, pics |-> <<>>,
     latin |-> <<>>]

BlankDoc == LayoutDocOf(BlankName, EmptyDict, NoneV, <<>>)

\* documents whose extraction fails
UnparseableLayout == [BlankDoc EXCEPT !.wellformed = FALSE]
NoCSldLayout == [BlankDoc EXCEPT !.hasCSld = FALSE]
BadOffsetLayout ==
    [BlankDoc EXCEPT !.name = TitleSlideName,
                     !.shapes = <<[FullPageTitle(NoneV) EXCEPT !.x = BadAttr]>>]
BadSizeLayout ==
    [BlankDoc EXCEPT !.shapes = <<FullPageTitle("tx1"),
                                  [BodyShape(BodyType, Absent, NoneV) EXCEPT !.sz = BadAttr]>>]
BadPictureLayout ==
    [BlankDoc EXCEPT !.hasRels = TRUE, !.rels = RelsA,
                     !.pics = <<[PagePic("rId2") EXCEPT !.cy = BadAttr]>>]
BadRelsLayout ==
    [BlankDoc EXCEPT !.hasRels = TRUE, !.rels = RelsB,
                     !.fills = <<Fill({1, 2, 3}, TRUE, "rId1")>>]

OverrideMap == <<(<<"tx2", "dk1">>), (<<"bg1", "lt1">>)>>

\* a layout whose background picture fill resolves through rels
ImageLayout(name, overrides, bg_color, rels) ==
    [LayoutDocOf(name, overrides, bg_color, <<>>) EXCEPT
        !.hasRels = TRUE, !.rels = rels,
        !.fills = <<Fill({1, 2, 3}, TRUE, "rId1")>>]

\* a layout with colour overrides, a background colour, a background image
\* and a title placeholder
FullLayout ==
    [ImageLayout(TitleSlideName, OverrideMap, "dk1", RelsA) EXCEPT
        !.shapes = <<FullPageTitle("accent1")>>]

LayoutDocs ==
    {LayoutDocOf(n, EmptyDict, b, s) :
        n \in {TitleSlideName, BlankName}, b \in {NoneV, "dk1"}, s \in ShapeLists}
    \cup {ImageLayout(TitleSlideName, o, b, r) :
            o \in {EmptyDict, OverrideMap}, b \in {NoneV, "dk1", "bg1"},
            r \in {RelsA, RelsC}}
    \cup {UnparseableLayout, NoCSldLayout, BadOffsetLayout, BadSizeLayout,
          BadPictureLayout, BadRelsLayout}
    \cup {LayoutDocOf(TitleSlideJoined, EmptyDict, NoneV, <<>>),
          LayoutDocOf(NoName, EmptyDict, NoneV, <<>>), FullLayout,
          ImageLayout(NoName, EmptyDict, "dk1", RelsA),
          LayoutDocOf(BlankName, OverrideMap, "bg1", <<FullPageTitle("tx2")>>),
          [BlankDoc EXCEPT !.name = TitleSlideName, !.bg_color = "dk1",
                           !.hasRels = TRUE, !.rels = RelsA,
                           !.pics = <<PagePic("rId2")>>]}

\* line 182
LayoutInit ==
    /\ layoutPc = "loop"
    /\ layoutDir = <<>>
    /\ layouts = EmptyDict
    /\ outer_file = [exc |-> "none", lines |-> <<>>]

\* lines 193-309: the next document of the directory
ParseLayoutDocument ==
    /\ layoutPc = "loop"
    /\ Len(layoutDir) < MaxLayoutDocs
    /\ \E doc \in LayoutDocs :
        LET r == LayoutStep(layouts, doc) IN
        /\ layoutDir' = Append(layoutDir, doc)
        /\ layouts' = r.layouts
        /\ layoutPc' = IF r.exc # "none" THEN "raised" ELSE "loop"
    /\ UNCHANGED outer_file
    /\ UNCHANGED notLayout

\* lines 190-191 and 311: no directory, or no document left
ReturnLayouts ==
    /\ layoutPc = "loop"
    /\ layoutPc' = "returned"
    /\ UNCHANGED <<layoutDir, layouts, outer_file>>
    /\ UNCHANGED notLayout

\* lines 674-816: the outer theme of the layouts that were returned
GenerateOuter ==
    /\ layoutPc = "returned"
    /\ outer_file' = generate_outer_theme(layouts)
    /\ layoutPc' = "generated"
    /\ UNCHANGED <<layoutDir, layouts>>
    /\ UNCHANGED notLayout

-----------------------------------------------------------------------------
(* Placeholder harness: one layout document, its placeholders drawn freely *)

MaxShapes == 2

SubtitleType == <<"s", "u", "b", "t", "i", "t", "l", "e">>
FooterType == <<"f", "t", "r">>

\* a placeholder 2286000 high whose top is at y and whose width is cx
PlacedShape(type, idx, y, cx, color) ==
    Shape(TRUE, type, idx, TRUE, IntAttr(914400), IntAttr(y), IntAttr(cx),
          IntAttr(2286000), color)

ShapeOptions ==
    { FullPageTitle(NoneV),
      PlacedShape(TitleType, Absent, 3429000, 6096000, "accent1"),
      PlacedShape(TitleType, <<"1">>, 685800, 6096000, "accent2"),
      PlacedShape(TitleType, <<"3">>, 0 - 5000, 6096000, "tx1"),
      [FullPageTitle("tx2") EXCEPT !.idx = <<"2">>, !.xfrm = FALSE,
                                   !.off = FALSE, !.ext = FALSE],
      PlacedShape(BodyType, Absent, 1600200, 6096000, NoneV),
      PlacedShape(Absent, Absent, 3429000, 6096000, "tx1"),
      PlacedShape(BodyType, <<"0">>, 2286000, 6096000, "tx2"),
      PlacedShape(Absent, Idx18, 228600, 6096000, "accent1"),
      PlacedShape(BodyType, Idx18, 4572000, 0, "tx2"),
      PlacedShape(BodyType, <<"s", "u", "b", "T", "i", "t", "l", "e">>,
                  914400, 6096000, NoneV),
      PlacedShape(SubtitleType, Absent, 4000500, 6096000, "dk2"),
      PlacedShape(FooterType, <<"1", "1">>, 6356350, 6096000, "accent1"),
      PlainShape }

AccentOverride == <<(<<"accent1", "accent2">>), (<<"tx1", "accent1">>)>>

PlaceholderDocs ==
    {LayoutDocOf(TitleSlideName, o, NoneV, s) :
        o \in {EmptyDict, OverrideMap, AccentOverride},
        s \in SeqsUpTo(ShapeOptions, MaxShapes)}

\* lines 193-309, for a directory that holds one layout document
ParsePlaceholderDocument ==
    /\ layoutPc = "loop"
    /\ layoutDir = <<>>
    /\ \E doc \in PlaceholderDocs :
        LET r == LayoutStep(layouts, doc) IN
        /\ layoutDir' = <<doc>>
        /\ layouts' = r.layouts
        /\ layoutPc' = IF r.exc # "none" THEN "raised" ELSE "loop"
    /\ UNCHANGED outer_file
    /\ UNCHANGED notLayout

-----------------------------------------------------------------------------
(* main *)

\* The input of a run: the file named on the command line and, when it is a
\* readable archive, the documents it holds.
ArchiveOf(is_file, suffix, readable, theme, slides, masters, layoutDocs, media) ==
    [is_file |-> is_file, suffix |-> suffix, readable |-> readable,
     theme |-> theme, slides |-> slides, masters |-> masters,
     layoutDocs |-> layoutDocs, media |-> media]

\* str.lower() on the file suffixes the model draws
LowerSuffix(s) == IF s = ".PPTX" THEN ".pptx" ELSE s

SlideDoc(wf, latin) == [wellformed |-> wf, latin |-> latin]
MasterDoc(wf, latin, shapes) == [wellformed |-> wf, latin |-> latin, shapes |-> shapes]

EmptyArchive == ArchiveOf(TRUE, ".pptx", TRUE, NoThemeDoc, <<>>, <<>>, <<>>, <<>>)

\* a theme declaring lt1 = FFFFFF, dk1 = 000000 and accent1 = FF0000
ThreeColorTheme ==
    ThemeDocOf(TRUE, TRUE, TRUE,
               << SchemeChild("dk1", "srgb", "000000"),
                  SchemeChild("lt1", "srgb", "FFFFFF"),
                  SchemeChild("accent1", "srgb", "FF0000") >>,
               <<>>, "absent", "absent")

\* the layout "Title Slide": a full-page title placeholder, background dk1
TitleSlideLayout(title_color) ==
    LayoutDocOf(TitleSlideName, EmptyDict, "dk1", <<FullPageTitle(title_color)>>)

RectangleName == <<"R", "e", "c", "t", "a", "n", "g", "l", "e", " ", "7">>
LogoName == <<"L", "o", "g", "o">>

FooterMaster ==
    MasterDoc(TRUE, <<"Helvetica Neue", NoneV>>,
              << MasterShape(TRUE, TRUE, IntAttr(6000000), TRUE, RectangleName),
                 MasterShape(TRUE, TRUE, IntAttr(6400000), TRUE, LogoName),
                 MasterShape(TRUE, TRUE, IntAttr(100), FALSE, <<>>),
                 MasterShape(TRUE, FALSE, BadAttr, FALSE, <<>>) >>)

BadOffsetMaster ==
    MasterDoc(TRUE, <<>>, <<MasterShape(TRUE, TRUE, BadAttr, FALSE, <<>>)>>)

Archives ==
    { [EmptyArchive EXCEPT !.is_file = FALSE],
      [EmptyArchive EXCEPT !.suffix = ".ppt"],
      [EmptyArchive EXCEPT !.suffix = ".PPTX"],
      [EmptyArchive EXCEPT !.readable = FALSE],
      EmptyArchive,
      [EmptyArchive EXCEPT !.masters = <<BadOffsetMaster>>],
      [EmptyArchive EXCEPT !.masters = <<MasterDoc(FALSE, <<>>, <<>>), FooterMaster>>,
                           !.slides = <<SlideDoc(TRUE, <<"Calibri Light", "Comic Sans MS">>),
                                        SlideDoc(FALSE, <<"Arial">>)>>,
                           !.media = <<"image1.png", "image3.emf">>],
      [EmptyArchive EXCEPT !.theme = ThreeColorTheme,
                           !.layoutDocs = <<TitleSlideLayout(NoneV)>>],
      [EmptyArchive EXCEPT !.theme = ThreeColorTheme,
                           !.layoutDocs = <<TitleSlideLayout("accent1")>>],
      [EmptyArchive EXCEPT !.theme = [ThreeColorTheme EXCEPT !.scheme =
                                        Append(@, SchemeChild("dk2", "srgb", "333333")),
                                      !.major = "Cambria", !.minor = "Calibri"],
                           !.layoutDocs = <<TitleSlideLayout(NoneV)>>],
      [EmptyArchive EXCEPT !.theme = ThreeColorTheme,
                           !.layoutDocs = <<BlankDoc, BadOffsetLayout>>],
      [EmptyArchive EXCEPT !.theme = BadThemeDoc,
                           !.layoutDocs = <<[BlankDoc EXCEPT !.name = NoName]>>],
      [EmptyArchive EXCEPT !.theme = ThreeColorTheme,
                           !.layoutDocs = <<UnparseableLayout, NoCSldLayout, BadRelsLayout,
                                            TitleSlideLayout("accent1"),
                                            LayoutDocOf(TitleSlideJoined, EmptyDict, NoneV, <<>>)>>,
                           !.media = <<"image1.png">>],
      [EmptyArchive EXCEPT !.layoutDocs = <<BadPictureLayout>>],
      [EmptyArchive EXCEPT !.theme = ThreeColorTheme,
                           !.layoutDocs = <<LayoutDocOf(BlankName, EmptyDict, "accent2", <<>>),
                                            LayoutDocOf(TitleSlideName, OverrideMap, "bg1", <<>>)>>] }

\* the names of the seven generated files
ColorFile == "beamercolortheme.sty"
FontFile == "beamerfonttheme.sty"
OuterFile == "beameroutertheme.sty"
InnerFile == "beamerinnertheme.sty"
MainFile == "beamertheme.sty"
ExampleFile == "example.tex"
ReportFile == "CONVERSION_NOTES.md"

\* an output directory left by an earlier run
OldDirectory == [exists |-> TRUE, files |-> <<(<<"old.txt", "old">>)>>]
NoDirectory == [exists |-> FALSE, files |-> EmptyDict]

NoLocals ==
    [colors |-> EmptyDict, fonts |-> EmptyDict, slide_fonts |-> <<>>,
     layouts |-> EmptyDict, styling_info |-> NoStyling]

MainInit ==
    /\ pc = "idle"
    /\ archive = EmptyArchive
    /\ inkscape = "absent"
    /\ output_dir = NoDirectory
    /\ locals = NoLocals
    /\ exit_code = 0

\* the command line and the environment of a run
StartMain ==
    /\ pc = "idle"
    /\ archive' \in Archives
    /\ inkscape' \in {"absent", "works", "fails"}
    /\ output_dir' \in {NoDirectory, OldDirectory}
    /\ pc' = "validate"
    /\ UNCHANGED <<locals, exit_code>>
    /\ UNCHANGED notMain

\* lines 965-972
Validate ==
    /\ pc = "validate"
    /\ IF ~archive.is_file \/ LowerSuffix(archive.suffix) # ".pptx"
       THEN pc' = "exited" /\ exit_code' = 1
       ELSE pc' = "prepare" /\ UNCHANGED exit_code
    /\ UNCHANGED <<archive, inkscape, output_dir, locals>>
    /\ UNCHANGED notMain

\* lines 994-997
PrepareOutput ==
    /\ pc = "prepare"
    /\ output_dir' = [exists |-> TRUE, files |-> EmptyDict]
    /\ pc' = "extract"
    /\ UNCHANGED <<archive, inkscape, locals, exit_code>>
    /\ UNCHANGED notMain

\* lines 1003-1009
Extract ==
    /\ pc = "extract"
    /\ IF ~archive.readable
       THEN pc' = "exited" /\ exit_code' = 1
       ELSE pc' = "theme" /\ UNCHANGED exit_code
    /\ UNCHANGED <<archive, inkscape, output_dir, locals>>
    /\ UNCHANGED notMain

\* lines 1012-1013
MainParseTheme ==
    /\ pc = "theme"
    /\ locals' = [locals EXCEPT !.colors = parse_theme_xml(archive.theme).colors,
                                !.fonts = parse_theme_xml(archive.theme).fonts]
    /\ pc' = "slide_fonts"
    /\ UNCHANGED <<archive, inkscape, output_dir, exit_code>>
    /\ UNCHANGED notMain

\* line 1014
MainExtractFonts ==
    /\ pc = "slide_fonts"
    /\ locals' = [locals EXCEPT !.slide_fonts =
                    extract_fonts_from_slides(archive.slides, archive.masters,
                                              archive.layoutDocs)]
    /\ pc' = "layouts"
    /\ UNCHANGED <<archive, inkscape, output_dir, exit_code>>
    /\ UNCHANGED notMain

\* line 1015: an exception that leaves parse_slide_layouts ends the run with
\* a traceback and exit code 1
MainParseLayouts ==
    /\ pc = "layouts"
    /\ LET r == parse_slide_layouts(archive.layoutDocs) IN
       IF r.exc # "none"
       THEN pc' = "exited" /\ exit_code' = 1 /\ UNCHANGED locals
       ELSE /\ pc' = "masters"
            /\ locals' = [locals EXCEPT !.layouts = r.layouts]
            /\ UNCHANGED exit_code
    /\ UNCHANGED <<archive, inkscape, output_dir>>
    /\ UNCHANGED notMain

\* line 1016: likewise for parse_slide_master_styling
MainParseMasters ==
    /\ pc = "masters"
    /\ LET r == parse_slide_master_styling(archive.masters) IN
       IF r.exc # "none"
       THEN pc' = "exited" /\ exit_code' = 1 /\ UNCHANGED locals
       ELSE /\ pc' = "media"
            /\ locals' = [locals EXCEPT !.styling_info = r.styling_info]
            /\ UNCHANGED exit_code
    /\ UNCHANGED <<archive, inkscape, output_dir>>
    /\ UNCHANGED notMain

\* lines 1024-1035: the media files are copied, then the EMF files converted
CopyMedia ==
    /\ pc = "media"
    /\ output_dir' = [output_dir EXCEPT !.files =
            convert_emf_to_pdf(
                [i \in 1..Len(archive.media) |-> <<archive.media[i], "media">>],
                inkscape)]
    /\ pc' = "color"
    /\ UNCHANGED <<archive, inkscape, locals, exit_code>>
    /\ UNCHANGED notMain

\* line 1039
WriteColorTheme ==
    /\ pc = "color"
    /\ output_dir' = [output_dir EXCEPT !.files =
            DictPut(@, ColorFile, generate_color_theme(locals.colors))]
    /\ pc' = "font"
    /\ UNCHANGED <<archive, inkscape, locals, exit_code>>
    /\ UNCHANGED notMain

\* line 1040
WriteFontTheme ==
    /\ pc = "font"
    /\ output_dir' = [output_dir EXCEPT !.files =
            DictPut(@, FontFile, generate_font_theme(locals.fonts, locals.slide_fonts))]
    /\ pc' = "outer"
    /\ UNCHANGED <<archive, inkscape, locals, exit_code>>
    /\ UNCHANGED notMain

\* line 1041: a TypeError leaves the file as far as it was written and ends
\* the run with exit code 1
WriteOuterTheme ==
    /\ pc = "outer"
    /\ LET r == generate_outer_theme(locals.layouts) IN
       /\ output_dir' = [output_dir EXCEPT !.files = DictPut(@, OuterFile, r.lines)]
       /\ IF r.exc # "none"
          THEN pc' = "exited" /\ exit_code' = 1
          ELSE pc' = "inner" /\ UNCHANGED exit_code
    /\ UNCHANGED <<archive, inkscape, locals>>
    /\ UNCHANGED notMain

\* lines 1042-1043
WriteInnerAndMain ==
    /\ pc = "inner"
    /\ output_dir' = [output_dir EXCEPT !.files =
            DictPut(DictPut(@, InnerFile, generate_inner_theme),
                    MainFile, generate_main_theme_file)]
    /\ pc' = "example"
    /\ UNCHANGED <<archive, inkscape, locals, exit_code>>
    /\ UNCHANGED notMain

\* line 1044
WriteExample ==
    /\ pc = "example"
    /\ LET r == generate_example_file(locals.layouts) IN
       /\ output_dir' = [output_dir EXCEPT !.files = DictPut(@, ExampleFile, r.lines)]
       /\ IF r.exc # "none"
          THEN pc' = "exited" /\ exit_code' = 1
          ELSE pc' = "report" /\ UNCHANGED exit_code
    /\ UNCHANGED <<archive, inkscape, locals>>
    /\ UNCHANGED notMain

\* lines 1047-1059: the report, then the end of main
WriteReport ==
    /\ pc = "report"
    /\ output_dir' = [output_dir EXCEPT !.files =
            DictPut(@, ReportFile,
                    generate_conversion_report(locals.colors, locals.fonts,
                                               locals.slide_fonts, locals.layouts))]
    /\ pc' = "exited"
    /\ exit_code' = 0
    /\ UNCHANGED <<archive, inkscape, locals>>
    /\ UNCHANGED notMain

-----------------------------------------------------------------------------
(* Specifications *)

Init ==
    /\ ThemeInit
    /\ LocatorInit
    /\ RegistryInit
    /\ ConverterInit
    /\ LayoutInit
    /\ MainInit

ThemeNext == ParseTheme

SpecTheme == Init /\ [][ThemeNext]_vars

LocatorNext == Locate \/ LocateThreshold

SpecLocator == Init /\ [][LocatorNext]_vars

RegistryNext == ScanDocument \/ ScanDocumentNoRels \/ NextDirectory

SpecRegistry == Init /\ [][RegistryNext]_vars

ConverterNext == Convert

SpecConverter == Init /\ [][ConverterNext]_vars

LayoutNext == ParseLayoutDocument \/ ReturnLayouts

SpecLayouts == Init /\ [][LayoutNext]_vars

OuterNext == ParseLayoutDocument \/ ReturnLayouts \/ GenerateOuter

SpecOuter == Init /\ [][OuterNext]_vars

PlaceholderNext == ParsePlaceholderDocument \/ ReturnLayouts \/ GenerateOuter

SpecPlaceholders == Init /\ [][PlaceholderNext]_vars

MainNext ==
    \/ StartMain
    \/ Validate
    \/ PrepareOutput
    \/ Extract
    \/ MainParseTheme
    \/ MainExtractFonts
    \/ MainParseLayouts
    \/ MainParseMasters
    \/ CopyMedia
    \/ WriteColorTheme
    \/ WriteFontTheme
    \/ WriteOuterTheme
    \/ WriteInnerAndMain
    \/ WriteExample
    \/ WriteReport

SpecMain == Init /\ [][MainNext]_vars

-----------------------------------------------------------------------------
(* C1: derived aliases of parse_theme_xml *)

AliasPairs == {<<"bg1", "lt1">>, <<"bg2", "dk1">>, <<"tx1", "dk1">>, <<"tx2", "dk2">>}

\* The scheme children that give tag a colour, read off the document itself.
DeclIdx(scheme, tag) ==
    {i \in 1..Len(scheme) : scheme[i].tag = tag /\ scheme[i].kind # "none"}

Declared(scheme, tag) == DeclIdx(scheme, tag) # {}

\* The value the last such child gives it.
DeclVal(scheme, tag) ==
    LET i == CHOOSE j \in DeclIdx(scheme, tag) :
                 \A k \in DeclIdx(scheme, tag) : k <= j
        c == scheme[i]
    IN IF c.kind = "sys" /\ c.val = NoneV THEN "FFFFFF" ELSE c.val

ThemeParsed == tpc = "done" /\ themeDoc.exists /\ themeDoc.wellformed

\* C1: in the map parse_theme_xml returns, for each alias/source pair: an alias
\* the scheme declares keeps its declared value; an undeclared alias whose
\* source slot has value V equals V; an undeclared alias whose source is absent
\* stays undefined.
C1_AliasesDerived ==
    ThemeParsed =>
        \A p \in AliasPairs :
            LET alias == p[1]
                src == p[2]
                sch == themeDoc.scheme
                colors == themeOut.colors
            IN /\ Declared(sch, alias) =>
                    /\ DictHas(colors, alias)
                    /\ DictGet(colors, alias, NoneV) = DeclVal(sch, alias)
               /\ (~Declared(sch, alias) /\ Declared(sch, src)) =>
                    /\ DictHas(colors, alias)
                    /\ DictGet(colors, alias, NoneV) = DeclVal(sch, src)
               /\ (~Declared(sch, alias) /\ ~Declared(sch, src)) =>
                    ~DictHas(colors, alias)

\* C1 witness: dk1 and tx1 are declared with different values; tx1 keeps its
\* own, the undeclared bg2 takes dk1's, and the undeclared bg1 (no lt1) is
\* undefined.
C1_Witness ==
    /\ ThemeParsed
    /\ Declared(themeDoc.scheme, "dk1")
    /\ Declared(themeDoc.scheme, "tx1")
    /\ DeclVal(themeDoc.scheme, "dk1") # DeclVal(themeDoc.scheme, "tx1")
    /\ DictGet(themeOut.colors, "tx1", NoneV) = DeclVal(themeDoc.scheme, "tx1")
    /\ DictGet(themeOut.colors, "bg2", NoneV) = DeclVal(themeDoc.scheme, "dk1")
    /\ ~DictHas(themeOut.colors, "bg1")

-----------------------------------------------------------------------------
(* C2: the fill reference has priority over the picture heuristic *)

LocatorDone == lpc = "done" /\ bgDoc.wellformed

\* An a:blipFill at one of the four pattern locations that carries a
\* relationship id.
IsFillRef(f) == f.pats # {} /\ f.blip /\ f.rid # NoneV /\ f.rid # ""

HasFillRef(doc) == \E i \in 1..Len(doc.fills) : IsFillRef(doc.fills[i])

\* A picture that passes the large-and-at-origin test and carries a
\* relationship id.
IsBgPicture(pic) ==
    /\ pic.xfrm /\ pic.off /\ pic.ext
    /\ pic.x.kind # "bad" /\ pic.y.kind # "bad"
    /\ pic.cx.kind # "bad" /\ pic.cy.kind # "bad"
    /\ IntOf(pic.cx) > 7000000 /\ IntOf(pic.cy) > 5000000
    /\ IntOf(pic.x) < 100000 /\ IntOf(pic.y) < 100000
    /\ pic.blipFill /\ pic.blip /\ pic.rid # NoneV

HasBgPicture(doc) == \E i \in 1..Len(doc.pics) : IsBgPicture(doc.pics[i])

PictureTouched(out) == \E k \in 1..Len(out.trace) : out.trace[k][1] = "pic"

\* The element root.find gives for pattern p: the first in document order.
FirstMatch(doc, p) ==
    LET m == {i \in 1..Len(doc.fills) : p \in doc.fills[i].pats}
    IN IF m = {} THEN 0 ELSE CHOOSE i \in m : \A j \in m : i <= j

\* The patterns whose first match carries an id that resolves to an image.
ResolvingPatterns(doc, rels) ==
    {p \in 1..4 :
        /\ FirstMatch(doc, p) # 0
        /\ IsFillRef(doc.fills[FirstMatch(doc, p)])
        /\ get_image_from_relationship(rels, doc.fills[FirstMatch(doc, p)].rid) # NoneV}

\* C2 as stated: whenever the document holds a fill reference at a pattern
\* location and a picture passing the test, a fill reference's image is the
\* result and no picture's relationship is resolved.
C2_Original ==
    (LocatorDone /\ HasFillRef(bgDoc) /\ HasBgPicture(bgDoc)) =>
        /\ ~PictureTouched(bgOut)
        /\ \E i \in 1..Len(bgDoc.fills) :
            /\ IsFillRef(bgDoc.fills[i])
            /\ bgOut.image = get_image_from_relationship(bgRels, bgDoc.fills[i].rid)
            /\ bgOut.image # NoneV

\* C2 amended: when, for some pattern, the first a:blipFill it matches carries
\* an id that resolves to an image file, the result is the image of the first
\* such pattern in pattern order and no picture's relationship is resolved
\* (no picture is reached, so none raises either).
C2_FillFirst ==
    (LocatorDone /\ ResolvingPatterns(bgDoc, bgRels) # {} /\ HasBgPicture(bgDoc)) =>
        LET p == CHOOSE q \in ResolvingPatterns(bgDoc, bgRels) :
                    \A r \in ResolvingPatterns(bgDoc, bgRels) : q <= r
        IN /\ bgOut.exc = "none"
           /\ bgOut.image =
                get_image_from_relationship(bgRels, bgDoc.fills[FirstMatch(bgDoc, p)].rid)
           /\ ~PictureTouched(bgOut)

\* C2 witness: a resolving fill reference and a passing picture whose own
\* reference would resolve to another image; the fill's image is returned.
C2_Witness ==
    /\ LocatorDone
    /\ ResolvingPatterns(bgDoc, bgRels) # {}
    /\ \E i \in 1..Len(bgDoc.pics) :
        /\ IsBgPicture(bgDoc.pics[i])
        /\ get_image_from_relationship(bgRels, bgDoc.pics[i].rid) \notin {NoneV, bgOut.image}
    /\ bgOut.image # NoneV
    /\ ~PictureTouched(bgOut)

-----------------------------------------------------------------------------
(* C3: the thresholds of the picture-as-background test *)

ThresholdDone == lpc = "done" /\ bgDoc \in ThresholdDocs

ThePic == bgDoc.pics[1]
Accepted == bgOut.image # NoneV

\* With the other quantities at values the test accepts (sizes one above their
\* thresholds, offsets one below theirs), v is accepted exactly when it is
\* above t.
StrictlyGreaterRule(v, t) ==
    /\ v = t - 1 => ~Accepted
    /\ v = t => ~Accepted
    /\ v = t + 1 => Accepted

\* ... exactly when it is below t.
StrictlyLessRule(v, t) ==
    /\ v = t - 1 => Accepted
    /\ v = t => ~Accepted
    /\ v = t + 1 => ~Accepted

SizesAccepting == ThePic.cx.v = MinBgWidth + 1 /\ ThePic.cy.v = MinBgHeight + 1
WidthOthersAccepting ==
    ThePic.cy.v = MinBgHeight + 1 /\ ThePic.x.v = MaxBgOffsetX - 1
    /\ ThePic.y.v = MaxBgOffsetY - 1
HeightOthersAccepting ==
    ThePic.cx.v = MinBgWidth + 1 /\ ThePic.x.v = MaxBgOffsetX - 1
    /\ ThePic.y.v = MaxBgOffsetY - 1

\* C3 as stated: a strict greater-than rule at all four thresholds.
C3_Original ==
    ThresholdDone =>
        /\ WidthOthersAccepting => StrictlyGreaterRule(ThePic.cx.v, 7000000)
        /\ HeightOthersAccepting => StrictlyGreaterRule(ThePic.cy.v, 5000000)
        /\ (SizesAccepting /\ ThePic.y.v = MaxBgOffsetY - 1) =>
                StrictlyGreaterRule(ThePic.x.v, 100000)
        /\ (SizesAccepting /\ ThePic.x.v = MaxBgOffsetX - 1) =>
                StrictlyGreaterRule(ThePic.y.v, 100000)

\* C3 amended: strict greater-than at the width and height thresholds, strict
\* less-than at the x and y offset thresholds.
C3_Thresholds ==
    ThresholdDone =>
        /\ WidthOthersAccepting => StrictlyGreaterRule(ThePic.cx.v, 7000000)
        /\ HeightOthersAccepting => StrictlyGreaterRule(ThePic.cy.v, 5000000)
        /\ (SizesAccepting /\ ThePic.y.v = MaxBgOffsetY - 1) =>
                StrictlyLessRule(ThePic.x.v, 100000)
        /\ (SizesAccepting /\ ThePic.x.v = MaxBgOffsetX - 1) =>
                StrictlyLessRule(ThePic.y.v, 100000)

\* C3 witness: a picture one above both size thresholds and one below both
\* offset thresholds is taken as the background.
C3_Witness ==
    /\ ThresholdDone
    /\ SizesAccepting
    /\ ThePic.x.v = 99999 /\ ThePic.y.v = 99999
    /\ bgOut.image = "image2.JPG"

-----------------------------------------------------------------------------
(* C4: the background registry *)

\* The distinct names of a sequence, in first-seen order.
RECURSIVE FirstSeen(_, _, _)
FirstSeen(names, i, acc) ==
    IF i > Len(names) THEN acc
    ELSE FirstSeen(names, i + 1,
            IF \E k \in 1..Len(acc) : acc[k] = names[i] THEN acc
            ELSE Append(acc, names[i]))

SeenNames == [i \in 1..Len(seen) |-> seen[i][1]]

RegistryExact ==
    LET fs == FirstSeen(SeenNames, 1, <<>>) IN
    /\ Len(backgrounds) = Len(fs)
    /\ \A k \in 1..Len(fs) :
        backgrounds[k] = <<fs[k], "usebackground" \o NumStr(k)>>
    /\ \A i, j \in 1..Len(backgrounds) :
        i # j => /\ backgrounds[i][1] # backgrounds[j][1]
                 /\ backgrounds[i][2] # backgrounds[j][2]

RegistryStable ==
    /\ Len(backgrounds') >= Len(backgrounds)
    /\ \A k \in 1..Len(backgrounds) : backgrounds'[k] = backgrounds[k]

\* C4: at every point of the scan the registry holds each distinct resolved
\* filename exactly once, the k-th in first-seen order under usebackground<k>,
\* with names and commands pairwise distinct; and no step renumbers, replaces
\* or removes an entry.
C4_Registry == [](RegistryExact) /\ [][RegistryStable]_vars

\* C4 witness: the scan has returned; one filename was reached twice, through
\* different relationship ids, and a second filename once: two entries.
C4_Witness ==
    /\ rpc = "returned"
    /\ Len(backgrounds) = 2
    /\ \E i, j \in 1..Len(seen) :
        i < j /\ seen[i][1] = seen[j][1] /\ seen[i][2] # seen[j][2]
           /\ seen[i][1] = backgrounds[1][1]

-----------------------------------------------------------------------------
(* C5: the coordinate converter *)

\* q is the rational num / den (den a multiple of q's denominator)
IsRatio(q, num, den) ==
    /\ q[2] > 0
    /\ den % q[2] = 0
    /\ q[1] * (den \div q[2]) = num

\* C5: against the default 12192000 x 6858000 page every position converts to
\* x/12192000, y/6858000, width/12192000, height/6858000, and the position
\* spanning the whole page converts to 0, 0, 1, 1.
C5_Fractions ==
    cpc = "done" =>
        /\ IsRatio(beamer_pos.x_rel, position.x, 12192000)
        /\ IsRatio(beamer_pos.y_rel, position.y, 6858000)
        /\ IsRatio(beamer_pos.width_rel, position.width, 12192000)
        /\ IsRatio(beamer_pos.height_rel, position.height, 6858000)
        /\ position = Position(0, 0, 12192000, 6858000) =>
            /\ beamer_pos.x_rel = <<0, 1>>
            /\ beamer_pos.y_rel = <<0, 1>>
            /\ beamer_pos.width_rel = <<1, 1>>
            /\ beamer_pos.height_rel = <<1, 1>>

\* C5 witness: the whole-page placeholder has been converted to 0, 0, 1, 1.
C5_Witness ==
    /\ cpc = "done"
    /\ position = Position(0, 0, 12192000, 6858000)
    /\ beamer_pos.width_rel = <<1, 1>>
    /\ beamer_pos.height_rel = <<1, 1>>
    /\ beamer_pos.x_rel = <<0, 1>>
    /\ beamer_pos.y_rel = <<0, 1>>

-----------------------------------------------------------------------------
(* C6: colour before image in the composite background *)

\* the indexes of the commands op a in lines
CommandsAt(lines, op, a) ==
    {k \in 1..Len(lines) : lines[k].op = op /\ lines[k].a = a}

\* the n-th smallest member of a set of indexes, 0 when there are fewer
Nth(idxs, n) ==
    IF Cardinality(idxs) < n THEN 0
    ELSE CHOOSE k \in idxs : Cardinality({j \in idxs : j <= k}) = n

\* The layout has a solid background colour and a background image.
HasBoth(d) == Truthy(d.background_color) /\ Truthy(d.background_image)

\* The environment of the i-th layout is in the file and holds exactly one
\* background template, with exactly one colour rectangle and one image in
\* it, the rectangle first.
CompositeOf(lines, i) ==
    LET first == Nth(CommandsAt(lines, "newenvironment", ""), i)
        last == Nth(CommandsAt(lines, "endenvironment", ""), i)
        inside(S) == {k \in S : first < k /\ k < last}
        opens == inside(CommandsAt(lines, "usebackgroundtemplate", "begin"))
        closes == inside(CommandsAt(lines, "usebackgroundtemplate", "end"))
        rules == inside({k \in 1..Len(lines) : lines[k].op = "rule"})
        images == inside({k \in 1..Len(lines) : lines[k].op = "includegraphics"})
    IN /\ first # 0 /\ last # 0
       /\ Cardinality(opens) = 1 /\ Cardinality(closes) = 1
       /\ Cardinality(rules) = 1 /\ Cardinality(images) = 1
       /\ \A o \in opens, r \in rules, g \in images, c \in closes :
            o < r /\ r < g /\ g < c

\* C6 as stated: once generate_outer_theme has run on a layout map, every
\* layout of the map that has both a solid background colour and a
\* background image has, in the file, one composite background template in
\* which the colour rectangle comes strictly before the image.
C6_Original ==
    layoutPc = "generated" =>
        \A i \in 1..Len(layouts) :
            HasBoth(layouts[i][2]) => CompositeOf(outer_file.lines, i)

\* A layout with a colour and an image whose environment was never written,
\* generate_outer_theme having been left by a TypeError.
C6_Witness ==
    /\ layoutPc = "generated"
    /\ outer_file.exc = "TypeError"
    /\ \E i \in 1..Len(layouts) :
        HasBoth(layouts[i][2]) /\ ~CompositeOf(outer_file.lines, i)

-----------------------------------------------------------------------------
(* C7: end to end, the layout "Title Slide" *)

\* The run is over and its input was a readable .pptx archive.
RanOnArchive ==
    /\ pc = "exited"
    /\ archive.is_file
    /\ LowerSuffix(archive.suffix) = ".pptx"
    /\ archive.readable

\* The archive holds the theme lt1 = FFFFFF, dk1 = 000000, accent1 = FF0000
\* and the single layout "Title Slide" whose title has the colour c.
IsTitleSlideArchive(c) ==
    /\ archive.theme = ThreeColorTheme
    /\ archive.layoutDocs = <<TitleSlideLayout(c)>>

FileOf(name) == DictGet(output_dir.files, name, <<>>)

\* the colour names the colour module defines, with their values
DefinedColors ==
    {<<l.a, l.b>> : l \in {FileOf(ColorFile)[k] : k \in
        {j \in 1..Len(FileOf(ColorFile)) : FileOf(ColorFile)[j].op = "definecolor"}}}

\* the outer theme sets the colour of element to layer=name, name a colour
\* the colour module defines with the value hex
SetsDefined(element, layer, name, hex) ==
    /\ \E k \in 1..Len(FileOf(OuterFile)) :
        /\ FileOf(OuterFile)[k].op = "setbeamercolor"
        /\ FileOf(OuterFile)[k].a = element
        /\ FileOf(OuterFile)[k].b = layer \o "=" \o name
    /\ \E def \in DefinedColors : def[1] = name /\ (hex = "" \/ def[2] = hex)

\* C7 as stated: for the theme lt1, dk1, accent1 and the layout "Title Slide"
\* with a full-page title and background dk1, the run ends with exit code 0,
\* the outer theme defines the environment titleslide, its canvas background
\* is a colour the colour module defines as 000000, and its frame-title
\* colour is accent1 when the title carries that colour, the default tx2 when
\* it carries none, in both cases a colour the colour module defines.
C7_Original ==
    \A c \in {NoneV, "accent1"} :
        (RanOnArchive /\ IsTitleSlideArchive(c)) =>
            /\ exit_code = 0
            /\ \E k \in 1..Len(FileOf(OuterFile)) :
                FileOf(OuterFile)[k] =
                    OLine("newenvironment",
                          <<"t", "i", "t", "l", "e", "s", "l", "i", "d", "e">>, "", "")
            /\ SetsDefined("background canvas", "bg", "pptdk1", "000000")
            /\ SetsDefined("frametitle", "fg",
                           IF c = "accent1" THEN "pptaccent1" ELSE "ppttx2", "")

\* The run on the archive whose title carries no colour is over: the frame
\* title is set to ppttx2, which the colour module does not define.
C7_Witness ==
    /\ RanOnArchive
    /\ IsTitleSlideArchive(NoneV)
    /\ exit_code = 0
    /\ \E k \in 1..Len(FileOf(OuterFile)) :
        FileOf(OuterFile)[k] = OLine("setbeamercolor", <<>>, "frametitle", "fg=ppttx2")
    /\ \A def \in DefinedColors : def[1] # "ppttx2"

-----------------------------------------------------------------------------
(* C8: an archive with no theme and no layouts *)

\* the seven files main writes for an archive that holds nothing
DefaultFiles ==
    << <<ColorFile, generate_color_theme(EmptyDict)>>,
       <<FontFile, generate_font_theme(EmptyDict, <<>>)>>,
       <<OuterFile, generate_outer_theme(EmptyDict).lines>>,
       <<InnerFile, generate_inner_theme>>,
       <<MainFile, generate_main_theme_file>>,
       <<ExampleFile, generate_example_file(EmptyDict).lines>>,
       <<ReportFile, generate_conversion_report(EmptyDict, EmptyDict, <<>>, EmptyDict)>> >>

\* C8 as stated: a run on a readable .pptx archive with no theme document and
\* no layout documents ends with exit code 0 and leaves each of the seven
\* output files, holding what it holds by default.
C8_Original ==
    (RanOnArchive /\ ~archive.theme.exists /\ archive.layoutDocs = <<>>) =>
        /\ exit_code = 0
        /\ \A i \in 1..Len(DefaultFiles) :
            /\ DictHas(output_dir.files, DefaultFiles[i][1])
            /\ FileOf(DefaultFiles[i][1]) = DefaultFiles[i][2]

\* A run on such an archive that ended with exit code 1 before any module
\* was written: a slide master held an ill-formed y offset.
C8_Witness ==
    /\ RanOnArchive
    /\ ~archive.theme.exists
    /\ archive.layoutDocs = <<>>
    /\ exit_code = 1
    /\ ~DictHas(output_dir.files, ColorFile)

-----------------------------------------------------------------------------
(* C9: the exit code of main *)

\* C9 as stated: main ends with exit code 1 exactly when the input file is
\* missing, its extension is not .pptx or the archive cannot be read, and
\* with exit code 0 in every other case.
C9_Original ==
    pc = "exited" =>
        /\ exit_code \in {0, 1}
        /\ exit_code = 1 <=>
            \/ ~archive.is_file
            \/ LowerSuffix(archive.suffix) # ".pptx"
            \/ ~archive.readable

\* A run on a readable .pptx archive that ended with exit code 1.
C9_Witness == RanOnArchive /\ exit_code = 1

-----------------------------------------------------------------------------
(* C10: a failing layout document and the other layout documents *)

\* The extraction of doc, taken alone, fails.
Fails(doc) == LayoutBody(EmptyDict, doc).exc # "none"

\* What parse_slide_layouts returns for the documents of dir from the i-th on
\* that do not fail, the failing ones taken out of the archive.
RECURSIVE WithoutFailing(_, _, _)
WithoutFailing(acc, dir, i) ==
    IF i > Len(dir) THEN acc
    ELSE IF Fails(dir[i]) THEN WithoutFailing(acc, dir, i + 1)
    ELSE WithoutFailing(LayoutStep(acc, dir[i]).layouts, dir, i + 1)

\* C10 as stated: whenever parse_slide_layouts has stopped, it has returned,
\* and the map it returned is the map of the documents that did not fail
\* (unparseable XML, missing p:cSld, ill-formed attribute value, malformed
\* relationship file), as if the failing ones had not been in the archive.
C10_Original ==
    layoutPc # "loop" =>
        /\ layoutPc = "returned"
        /\ layouts = WithoutFailing(EmptyDict, layoutDir, 1)

\* A layout document was extracted, then one with an ill-formed attribute
\* value was met, and the function was left by the ValueError.
C10_Witness ==
    /\ layoutPc = "raised"
    /\ Len(layoutDir) = 2
    /\ ~Fails(layoutDir[1])
    /\ Fails(layoutDir[2])

-----------------------------------------------------------------------------
(* C11: malformed input of the background locator *)

\* The picture is one the claim calls malformed: it lacks a transform
\* element, or an offset or extent attribute is missing or ill-formed.
MalformedPic(pic) ==
    \/ ~(pic.xfrm /\ pic.off /\ pic.ext)
    \/ {"bad", "absent"} \cap {pic.x.kind, pic.y.kind, pic.cx.kind, pic.cy.kind} # {}

\* The document or its relationship document is one the claim calls
\* malformed.
MalformedInput(doc, rels) ==
    \/ ~doc.wellformed
    \/ ~rels.wellformed
    \/ \E i \in 1..Len(doc.pics) : MalformedPic(doc.pics[i])

\* C11 as stated: the locator never raises, whatever the input; an
\* unparseable document or an unparseable relationship document gives None.
C11_Original ==
    lpc = "done" =>
        /\ bgOut.exc = "none"
        /\ ~bgDoc.wellformed \/ ~bgRels.wellformed => bgOut.image = NoneV

\* The locator was left by the ValueError of int() on a malformed input: a
\* picture with its transform, whose offset attribute is not a number.
C11_Witness ==
    /\ lpc = "done"
    /\ MalformedInput(bgDoc, bgRels)
    /\ bgOut.exc = "ValueError"
    /\ \E i \in 1..Len(bgDoc.pics) :
        LET pic == bgDoc.pics[i]
        IN pic.xfrm /\ pic.off /\ pic.ext /\ pic.x.kind = "bad"

-----------------------------------------------------------------------------
(* C12: one background treatment per layout *)

\* The commands of the environment of the i-th layout, between its opening
\* and its closing; <<>> when the environment is not in the file.
EnvironmentOf(lines, i) ==
    LET first == Nth(CommandsAt(lines, "newenvironment", ""), i)
        last == Nth(CommandsAt(lines, "endenvironment", ""), i)
    IN IF first = 0 \/ last = 0 THEN <<>>
       ELSE SubSeq(lines, first + 1, last - 1)

\* The environment of the i-th layout is in the file.
EnvironmentWritten(lines, i) ==
    /\ Nth(CommandsAt(lines, "newenvironment", ""), i) # 0
    /\ Nth(CommandsAt(lines, "endenvironment", ""), i) # 0

\* How many canvas colour settings, background templates, colour rectangles
\* and images a sequence of commands holds.
Treatments(seg) ==
    [canvas |-> Cardinality({k \in 1..Len(seg) :
                    seg[k].op = "setbeamercolor" /\ seg[k].a = "background canvas"}),
     templates |-> Cardinality({k \in 1..Len(seg) :
                    seg[k].op = "usebackgroundtemplate" /\ seg[k].a = "begin"}),
     rules |-> Cardinality({k \in 1..Len(seg) : seg[k].op = "rule"}),
     images |-> Cardinality({k \in 1..Len(seg) : seg[k].op = "includegraphics"})]

\* The one treatment the claim gives a layout.
ExpectedTreatment(d) ==
    CASE Truthy(d.background_color) /\ ~Truthy(d.background_image) ->
            [canvas |-> 1, templates |-> 0, rules |-> 0, images |-> 0]
      [] ~Truthy(d.background_color) /\ Truthy(d.background_image) ->
            [canvas |-> 0, templates |-> 1, rules |-> 0, images |-> 1]
      [] Truthy(d.background_color) /\ Truthy(d.background_image) ->
            [canvas |-> 0, templates |-> 1, rules |-> 1, images |-> 1]
      [] OTHER ->
            [canvas |-> 0, templates |-> 1, rules |-> 0, images |-> 0]

\* C12 as stated: once generate_outer_theme has run, every layout of the map
\* has its environment in the file with exactly one background treatment in
\* it: a canvas colour alone for a colour, an image template for an image,
\* a composite template for both, an empty template for neither.
C12_Original ==
    layoutPc = "generated" =>
        \A i \in 1..Len(layouts) :
            /\ EnvironmentWritten(outer_file.lines, i)
            /\ Treatments(EnvironmentOf(outer_file.lines, i))
                    = ExpectedTreatment(layouts[i][2])

\* A layout with a solid colour and no image that got no treatment at all,
\* generate_outer_theme having been left by a TypeError before its turn.
C12_Witness ==
    /\ layoutPc = "generated"
    /\ outer_file.exc = "TypeError"
    /\ \E i \in 1..Len(layouts) :
        /\ Truthy(layouts[i][2].background_color)
        /\ ~Truthy(layouts[i][2].background_image)
        /\ ~EnvironmentWritten(outer_file.lines, i)
        /\ Treatments(EnvironmentOf(outer_file.lines, i)).canvas = 0

-----------------------------------------------------------------------------
(* C13: the canvas colour of a layout with a colour and no image *)

\* the layout has a solid background colour and no background image
ColourAlone(d) == Truthy(d.background_color) /\ ~Truthy(d.background_image)

\* the canvas colour settings of a sequence of commands
CanvasSettings(seg) ==
    {seg[k].b : k \in {j \in 1..Len(seg) :
        seg[j].op = "setbeamercolor" /\ seg[j].a = "background canvas"}}

\* the background colour of the layout through its override map, as a colour
\* name of the generated theme
ResolvedBackground(d) == Ppt(ThroughOverrides(d.color_overrides, d.background_color))

\* the colour module of the run defines the colour name
IsDefinedColor(name) == \E def \in DefinedColors : def[1] = name

\* C13 as stated: after a run that wrote the outer theme to its end, the
\* canvas colour of every layout with a colour and no image is its background
\* colour through the override map when the colour module defines that
\* colour, and the literal white when it does not.
C13_Original ==
    (RanOnArchive /\ exit_code = 0) =>
        \A i \in 1..Len(locals.layouts) :
            LET d == locals.layouts[i][2] IN
            ColourAlone(d) =>
                CanvasSettings(EnvironmentOf(FileOf(OuterFile), i)) =
                    {IF IsDefinedColor(ResolvedBackground(d))
                     THEN "bg=" \o ResolvedBackground(d) ELSE "bg=white"}

\* A run that ended with exit code 0 and set the canvas of a layout to a
\* colour name the colour module does not define.
C13_Witness ==
    /\ RanOnArchive
    /\ exit_code = 0
    /\ \E i \in 1..Len(locals.layouts) :
        LET d == locals.layouts[i][2] IN
        /\ ColourAlone(d)
        /\ ~IsDefinedColor(ResolvedBackground(d))
        /\ CanvasSettings(EnvironmentOf(FileOf(OuterFile), i))
                = {"bg=" \o ResolvedBackground(d)}

-----------------------------------------------------------------------------
(* C14: the frame-title colour of a layout *)

\* the settings of the colour of element in a sequence of commands
SettingsOf(seg, element) ==
    {seg[k].b : k \in {j \in 1..Len(seg) :
        seg[j].op = "setbeamercolor" /\ seg[j].name = <<>> /\ seg[j].a = element}}

\* the colours carried by the placeholders of the layout whose type is type
ColoursOfType(d, type) ==
    {d.detailed_placeholders[k][2].styling.color :
        k \in {j \in 1..Len(d.detailed_placeholders) :
            /\ d.detailed_placeholders[j][2].type = type
            /\ Truthy(d.detailed_placeholders[j][2].styling.color)}}

\* c through the override map of the layout, as a foreground setting
Foreground(d, c) == "fg=" \o Ppt(ThroughOverrides(d.color_overrides, c))

\* C14 as stated: every environment of the outer theme holds one frame-title
\* colour: the colour of a title placeholder of the layout when one carries a
\* colour, tx2 otherwise, in both cases through the override map.
C14_Original ==
    layoutPc = "generated" =>
        \A i \in 1..Len(layouts) :
            LET d == layouts[i][2]
                found == SettingsOf(EnvironmentOf(outer_file.lines, i), "frametitle")
                carried == ColoursOfType(d, <<"t", "i", "t", "l", "e">>)
            IN EnvironmentWritten(outer_file.lines, i) =>
                /\ Cardinality(found) = 1
                /\ found \subseteq
                     (IF carried # {} THEN {Foreground(d, c) : c \in carried}
                      ELSE {Foreground(d, "tx2")})

\* The only title placeholder of a layout carries the colour accent2 and an
\* index, and the frame title of its environment was set to the default tx2.
C14_Witness ==
    /\ layoutPc = "generated"
    /\ Len(layouts) = 1
    /\ layouts[1][2].color_overrides = EmptyDict
    /\ ColoursOfType(layouts[1][2], <<"t", "i", "t", "l", "e">>) = {"accent2"}
    /\ DictHas(layouts[1][2].placeholders, <<"t", "i", "t", "l", "e", "_", "1">>)
    /\ SettingsOf(EnvironmentOf(outer_file.lines, 1), "frametitle") = {"fg=ppttx2"}

-----------------------------------------------------------------------------
(* C15: the body colour of a layout *)

\* C15 as stated: every environment of the outer theme holds one item colour:
\* the colour of a body placeholder of the layout when one carries a colour,
\* tx2 otherwise, also when the layout has a body placeholder that carries no
\* colour, in both cases through the override map.
C15_Original ==
    layoutPc = "generated" =>
        \A i \in 1..Len(layouts) :
            LET d == layouts[i][2]
                found == SettingsOf(EnvironmentOf(outer_file.lines, i), "item")
                carried == ColoursOfType(d, <<"b", "o", "d", "y">>)
            IN EnvironmentWritten(outer_file.lines, i) =>
                /\ Cardinality(found) = 1
                /\ found \subseteq
                     (IF carried # {} THEN {Foreground(d, c) : c \in carried}
                      ELSE {Foreground(d, "tx2")})

\* The only placeholder of a layout is a body placeholder without a colour,
\* and the item colour of its environment was set to the text None.
C15_Witness ==
    /\ layoutPc = "generated"
    /\ Len(layouts) = 1
    /\ Len(layouts[1][2].placeholders) = 1
    /\ layouts[1][2].placeholders[1] = <<(<<"b", "o", "d", "y">>), NoneV>>
    /\ SettingsOf(EnvironmentOf(outer_file.lines, 1), "item") = {"fg=pptNone"}

-----------------------------------------------------------------------------
(* C16: the frame-subtitle colour of a layout *)

\* the placeholder mentions "subtitle" in its key or carries the colour accent1
IsSubtitleLike(kv) ==
    \/ Contains(kv[1], <<"s", "u", "b", "t", "i", "t", "l", "e">>)
    \/ kv[2] = "accent1"

\* the positions, in insertion order, of the placeholders that match
SubtitleLike(d) == {j \in 1..Len(d.placeholders) : IsSubtitleLike(d.placeholders[j])}

\* the frame-subtitle colour settings of a sequence of commands, one per
\* command
SubtitleSettings(seg) ==
    {k \in 1..Len(seg) : /\ seg[k].op = "setbeamercolor"
                         /\ seg[k].name = <<>>
                         /\ seg[k].a = "framesubtitle"}

\* C16: every environment of the outer theme holds at most one
\* frame-subtitle colour setting; it holds none when no placeholder of the
\* layout mentions "subtitle" in its key or carries accent1, and otherwise
\* one, whose colour is that of the first such placeholder in the insertion
\* order of the placeholder map, through the override map.
C16_FirstSubtitle ==
    layoutPc = "generated" =>
        \A i \in 1..Len(layouts) :
            LET d == layouts[i][2]
                seg == EnvironmentOf(outer_file.lines, i)
            IN EnvironmentWritten(outer_file.lines, i) =>
                /\ Cardinality(SubtitleSettings(seg)) <= 1
                /\ SubtitleLike(d) = {} => SubtitleSettings(seg) = {}
                /\ SubtitleLike(d) # {} =>
                    LET first == CHOOSE j \in SubtitleLike(d) :
                                    \A k \in SubtitleLike(d) : j <= k
                    IN \E k \in SubtitleSettings(seg) :
                        seg[k].b = Foreground(d, d.placeholders[first][2])

\* A layout with two matching placeholders of different colours under an
\* override map that renames the colour of the first: the environment holds
\* the first one's colour, renamed.
C16_Witness ==
    /\ layoutPc = "generated"
    /\ Len(layouts) = 1
    /\ EnvironmentWritten(outer_file.lines, 1)
    /\ LET d == layouts[1][2]
           seg == EnvironmentOf(outer_file.lines, 1)
       IN /\ Len(d.placeholders) = 2
          /\ SubtitleLike(d) = {1, 2}
          /\ d.placeholders[1][2] = "accent1"
          /\ d.placeholders[2][2] = "dk2"
          /\ d.color_overrides = AccentOverride
          /\ \E k \in SubtitleSettings(seg) : seg[k].b = "fg=pptaccent2"

-----------------------------------------------------------------------------
(* C17: the order and the coordinates of the nodes of the overlay *)

\* the nodes of a file, in the order they are written
NodesOf(lines) == SelectSeq(lines, LAMBDA l : l.op = "node")

\* the detailed placeholder a node was written for
InfoOf(d, node) == DictGet(d.detailed_placeholders, node.name, NoneV)

\* C17: in the overlay of a layout the nodes are in ascending order of the y
\* of their placeholders, whatever the insertion order of the map; no node
\* belongs to a placeholder of zero width or zero height; the width and the
\* two shifts of a node are the fractions the converter returns for its
\* placeholder, written with three decimals.
C17_Overlay ==
    (layoutPc = "generated" /\ Len(layouts) = 1) =>
        LET d == layouts[1][2]
            nodes == NodesOf(outer_file.lines)
        IN /\ \A a, b \in 1..Len(nodes) :
                a < b => InfoOf(d, nodes[a]).position.y <= InfoOf(d, nodes[b]).position.y
           /\ \A a \in 1..Len(nodes) :
                LET pos == InfoOf(d, nodes[a]).position
                    bp == convert_ppt_to_beamer_position(pos, PaperWidth, PaperHeight)
                IN /\ DictHas(d.detailed_placeholders, nodes[a].name)
                   /\ pos.width # 0 /\ pos.height # 0
                   /\ nodes[a].width = Fmt3(bp.width_rel)
                   /\ nodes[a].xshift = Fmt3(bp.x_rel)
                   /\ nodes[a].yshift = Fmt3(bp.y_rel)
                   /\ IsRatio(bp.y_rel, pos.y, 6858000)
                   /\ IsRatio(bp.x_rel, pos.x, 12192000)
                   /\ IsRatio(bp.width_rel, pos.width, 12192000)

\* Two placeholders were inserted with the lower one first, both got a node,
\* and the node of the second placeholder is written first, at a tenth of
\* the page height.
C17_Witness ==
    /\ layoutPc = "generated"
    /\ Len(layouts) = 1
    /\ LET d == layouts[1][2]
           nodes == NodesOf(outer_file.lines)
       IN /\ Len(d.detailed_placeholders) = 2
          /\ d.detailed_placeholders[1][2].position.y = 3429000
          /\ d.detailed_placeholders[2][2].position.y = 685800
          /\ Len(nodes) = 2
          /\ nodes[1].name = d.detailed_placeholders[2][1]
          /\ nodes[2].name = d.detailed_placeholders[1][1]
          /\ nodes[1].yshift = [neg |-> FALSE, milli |-> 100]
          /\ nodes[1].width = [neg |-> FALSE, milli |-> 500]

-----------------------------------------------------------------------------
(* C18: which placeholders the overlay renders *)

\* the key of a body placeholder marks it as the subtitle: it holds "18" or,
\* in any case of letters, "subtitle"
IndicatesSubtitle(key) ==
    \/ Contains(key, <<"1", "8">>)
    \/ Contains(LowerStr(key), <<"s", "u", "b", "t", "i", "t", "l", "e">>)

\* where the nodes written for the placeholder key are in the file
NodesFor(lines, key) ==
    {k \in 1..Len(lines) : lines[k].op = "node" /\ lines[k].name = key}

\* the node at k stands between a test of the subtitle text and its end
IsTested(lines, k) ==
    /\ k > 1 /\ k < Len(lines)
    /\ lines[k - 1].op = "ifx" /\ lines[k - 1].a = "insertframesubtitle"
    /\ lines[k + 1].op = "fi"

\* C18: in the overlay of a layout every title placeholder of non-zero area
\* has exactly one node, which renders the title text; every body
\* placeholder of non-zero area whose key marks it as the subtitle has
\* exactly one node, which renders the subtitle text inside a test of that
\* text; every other placeholder has no node.
C18_Rendered ==
    (layoutPc = "generated" /\ Len(layouts) = 1) =>
        LET d == layouts[1][2]
            lines == outer_file.lines
        IN \A j \in 1..Len(d.detailed_placeholders) :
            LET key == d.detailed_placeholders[j][1]
                info == d.detailed_placeholders[j][2]
                area == info.position.width # 0 /\ info.position.height # 0
                nodes == NodesFor(lines, key)
            IN CASE area /\ info.type = <<"t", "i", "t", "l", "e">> ->
                        /\ Cardinality(nodes) = 1
                        /\ \A k \in nodes : /\ lines[k].a = "insertframetitle"
                                            /\ ~IsTested(lines, k)
                 [] area /\ info.type = <<"b", "o", "d", "y">> /\ IndicatesSubtitle(key) ->
                        /\ Cardinality(nodes) = 1
                        /\ \A k \in nodes : /\ lines[k].a = "insertframesubtitle"
                                            /\ IsTested(lines, k)
                 [] OTHER -> nodes = {}

\* A layout with a body placeholder of index 18 and a footer placeholder,
\* both of non-zero area: the overlay holds the tested subtitle node of the
\* first and nothing for the footer.
C18_Witness ==
    /\ layoutPc = "generated"
    /\ Len(layouts) = 1
    /\ LET d == layouts[1][2]
           lines == outer_file.lines
       IN /\ \E j \in 1..Len(d.detailed_placeholders) :
                /\ d.detailed_placeholders[j][2].type = <<"f", "t", "r">>
                /\ d.detailed_placeholders[j][2].position.width # 0
                /\ NodesFor(lines, d.detailed_placeholders[j][1]) = {}
          /\ \E j \in 1..Len(d.detailed_placeholders) :
                /\ d.detailed_placeholders[j][1] = <<"b", "o", "d", "y", "_", "1", "8">>
                /\ d.detailed_placeholders[j][2].position.width # 0
                /\ \E k \in NodesFor(lines, d.detailed_placeholders[j][1]) :
                        IsTested(lines, k)

-----------------------------------------------------------------------------
(* C19: layout documents that carry the same name *)

\* The extraction of the document gets as far as its name.
ReachesName(doc) == doc.wellformed /\ doc.hasCSld

\* the documents of dir that get as far as their name
NamedDocs(dir) == {j \in 1..Len(dir) : ReachesName(dir[j])}

\* the last document of dir that carries name
LastNamed(dir, name) ==
    CHOOSE j \in NamedDocs(dir) :
        /\ dir[j].name = name
        /\ \A k \in NamedDocs(dir) : dir[k].name = name => k <= j

\* the descriptor parse_slide_layouts builds for the document taken alone
DescriptorAlone(doc) == LayoutBody(EmptyDict, doc).layouts[1][2]

\* C19: whatever documents parse_slide_layouts has processed, the layout map
\* holds exactly one descriptor per distinct name the documents carry, and
\* the descriptor of a name is the one its last document gives when it is
\* processed alone: overrides, placeholders, detailed placeholders,
\* background colour and background image of the earlier documents of that
\* name are gone.
C19_LastWins ==
    LET names == {layoutDir[j].name : j \in NamedDocs(layoutDir)}
    IN /\ {layouts[i][1] : i \in 1..Len(layouts)} = names
       /\ Len(layouts) = Cardinality(names)
       /\ \A i \in 1..Len(layouts) :
            layouts[i][2] = DescriptorAlone(layoutDir[LastNamed(layoutDir, layouts[i][1])])

\* Two documents named "Title Slide" were processed: the first with colour
\* overrides, a background colour, a background image and a title
\* placeholder, the second with none of them; the map holds one descriptor,
\* and it is empty.
C19_Witness ==
    /\ layoutPc = "returned"
    /\ layoutDir = <<FullLayout, LayoutDocOf(TitleSlideName, EmptyDict, NoneV, <<>>)>>
    /\ DescriptorAlone(FullLayout).placeholders # EmptyDict
    /\ DescriptorAlone(FullLayout).background_image = "image1.png"
    /\ Len(layouts) = 1
    /\ layouts[1][2] = NewLayout(TitleSlideName)

-----------------------------------------------------------------------------
(* C20: the keys of the placeholders of one layout *)

\* the placeholder shapes of a layout document, in document order
PlaceholdersOf(doc) == SelectSeq(doc.shapes, LAMBDA sp : sp.ph)

\* the keys of a dict, in insertion order
KeysOf(dict) == [i \in 1..Len(dict) |-> dict[i][1]]

\* the last placeholder shape of phs that is stored under key
LastWithKey(phs, key) ==
    CHOOSE j \in 1..Len(phs) :
        /\ placeholder_key(phs[j]) = key
        /\ \A k \in 1..Len(phs) : placeholder_key(phs[k]) = key => k <= j

\* C20: in the descriptor of a layout document no key occurs twice; a
\* placeholder without index is stored under its type alone; every key holds
\* the colour and the details of the last placeholder, in document order,
\* that is stored under it, so same-typed placeholders without index share
\* one entry; two placeholders of the same type whose indices are present and
\* different have different keys; the colour map and the detailed map have
\* the same keys.
C20_Keys ==
    (Len(layoutDir) = 1 /\ Len(layouts) = 1) =>
        LET d == layouts[1][2]
            phs == PlaceholdersOf(layoutDir[1])
        IN /\ \A i, j \in 1..Len(d.placeholders) :
                i # j => d.placeholders[i][1] # d.placeholders[j][1]
           /\ KeysOf(d.placeholders) = KeysOf(d.detailed_placeholders)
           /\ \A a \in 1..Len(phs) :
                /\ DictHas(d.placeholders, placeholder_key(phs[a]))
                /\ phs[a].idx = Absent =>
                    placeholder_key(phs[a]) =
                        (IF phs[a].type = Absent THEN <<"b", "o", "d", "y">>
                         ELSE phs[a].type)
           /\ \A i \in 1..Len(d.placeholders) :
                LET last == phs[LastWithKey(phs, d.placeholders[i][1])]
                IN /\ d.placeholders[i][2] = last.color
                   /\ d.detailed_placeholders[i][2] = Detailed(last)
           /\ \A a, b \in 1..Len(phs) :
                (/\ PhType(phs[a]) = PhType(phs[b])
                 /\ phs[a].idx # Absent /\ phs[b].idx # Absent
                 /\ phs[a].idx # phs[b].idx) =>
                    /\ placeholder_key(phs[a]) # placeholder_key(phs[b])
                    /\ Len(d.placeholders) >= 2

\* Two body placeholders without index, the first without colour and the
\* second with the colour tx1, were read: the layout has the single key body,
\* which holds tx1.
C20_Witness ==
    /\ layoutPc = "returned"
    /\ Len(layoutDir) = 1
    /\ Len(layouts) = 1
    /\ LET phs == PlaceholdersOf(layoutDir[1]) IN
        /\ Len(phs) = 2
        /\ phs[1].idx = Absent /\ phs[2].idx = Absent
        /\ phs[1].color = NoneV /\ phs[2].color = "tx1"
    /\ layouts[1][2].placeholders = <<(<<(<<"b", "o", "d", "y">>), "tx1">>)>>
    /\ Len(layouts[1][2].detailed_placeholders) = 1

-----------------------------------------------------------------------------
(* C21: the relationship lookup *)

\* What the k-th relationship lookup of the search returned: every lookup but
\* a successful last one returned None, since the search stops at the first
\* lookup that gives a filename.
Returned(out, k) ==
    IF k = Len(out.trace) /\ out.image # NoneV THEN out.image ELSE NoneV

\* the relationships of rels with the id r_id whose target ends, in any case
\* of letters, in an image extension
ImagesOfId(rels, r_id) ==
    {j \in 1..Len(rels.rels) :
        /\ rels.rels[j].id = r_id
        /\ rels.rels[j].target # NoTarget
        /\ Lower(rels.rels[j].target.suffix)
                \in {".emf", ".png", ".jpg", ".jpeg", ".svg", ".bmp"}}

\* C21: every relationship lookup of a search returns a filename only when
\* some relationship has the requested id and an image target, and the
\* filename is then the last path component of such a target; when the
\* relationships of the package namespace hold one, the lookup returns the
\* first of them, also when a relationship with the same id and a target
\* that is no image stands before it.
C21_ImageOnly ==
    (lpc = "done" /\ bgOut.exc = "none") =>
        \A k \in 1..Len(bgOut.trace) :
            LET r_id == bgOut.trace[k][2]
                images == ImagesOfId(bgRels, r_id)
                packaged == {j \in images : bgRels.rels[j].ns}
            IN /\ Returned(bgOut, k) # NoneV =>
                    \E j \in images :
                        Returned(bgOut, k) =
                            bgRels.rels[j].target.stem \o bgRels.rels[j].target.suffix
               /\ (bgRels.wellformed /\ packaged # {}) =>
                    LET first == CHOOSE j \in packaged : \A m \in packaged : j <= m
                    IN Returned(bgOut, k) =
                        bgRels.rels[first].target.stem \o bgRels.rels[first].target.suffix

\* The id rId1 was looked up in a relationship document whose first rId1
\* points to notes.XML and whose second to media/image3.emf, and whose rId2
\* points to image1.png: the lookup returned image3.emf.
C21_Witness ==
    /\ lpc = "done"
    /\ bgRels = RelsC
    /\ Len(bgOut.trace) >= 1
    /\ bgOut.trace[Len(bgOut.trace)][2] = "rId1"
    /\ bgOut.image = "image3.emf"

-----------------------------------------------------------------------------
(* C22: the colour names the override lookups end at *)

OverrideElements == {"background canvas", "frametitle", "item", "framesubtitle"}

\* the settings of element in a sequence of commands
ElementSettings(seg, element) ==
    IF element = "background canvas" THEN CanvasSettings(seg)
    ELSE SettingsOf(seg, element)

\* the settings that name a slot the colour map of the run holds with a value
SlotSettings(element) ==
    LET layer == IF element = "background canvas" THEN "bg=" ELSE "fg=" IN
    {layer \o Ppt(locals.colors[k][1]) :
        k \in {j \in 1..Len(locals.colors) : Truthy(locals.colors[j][2])}}

\* the settings that name the explicit default of the lookup: the literal
\* white for the canvas, tx2 for the title and the body, accent1 for the
\* subtitle
DefaultSettings(element) ==
    CASE element = "background canvas" -> {"bg=white"}
      [] element = "framesubtitle" -> {"fg=pptaccent1"}
      [] OTHER -> {"fg=ppttx2"}

\* C22 as stated: after a run that wrote the outer theme to its end, every
\* colour that an environment sets for the canvas, the frame title, the items
\* or the frame subtitle names a slot defined in the colour map of the theme
\* or is the explicit default of that lookup.
C22_Original ==
    (RanOnArchive /\ exit_code = 0) =>
        \A i \in 1..Len(locals.layouts) :
            \A element \in OverrideElements :
                ElementSettings(EnvironmentOf(FileOf(OuterFile), i), element)
                    \subseteq (SlotSettings(element) \cup DefaultSettings(element))

\* A run ended with exit code 0, the colour map has no slot accent2, and an
\* environment of the outer theme sets the canvas to pptaccent2.
C22_Witness ==
    /\ RanOnArchive
    /\ exit_code = 0
    /\ ~DictHas(locals.colors, "accent2")
    /\ \E i \in 1..Len(locals.layouts) :
        "bg=pptaccent2" \in
            ElementSettings(EnvironmentOf(FileOf(OuterFile), i), "background canvas")

-----------------------------------------------------------------------------
(* C23: the custom colours of parse_theme_xml *)

\* the values the scheme gives its slots, and with them the derived aliases
SchemeValues(doc) ==
    {DeclVal(doc.scheme, t) : t \in {u \in SlotTags : Declared(doc.scheme, u)}}

\* the i-th literal colour of the document has a value, found there for the
\* first time, that no slot of the scheme holds
Discovered(doc, i) ==
    LET lit == SrgbList(doc) IN
    /\ lit[i] # NoneV
    /\ \A j \in 1..(i - 1) : lit[j] # lit[i]
    /\ lit[i] \notin SchemeValues(doc)

\* the positions of the map whose key is custom<N>, and that N
CustomAt(colors, doc) ==
    {k \in 1..Len(colors) :
        \E n \in 1..Len(SrgbList(doc)) : colors[k][1] = CustomKey(n)}

NumberAt(colors, doc, k) ==
    CHOOSE n \in 1..Len(SrgbList(doc)) : colors[k][1] = CustomKey(n)

\* C23: in the map parse_theme_xml returns, custom<N> is a key exactly when
\* the N-th literal colour of the theme is the first to declare a value that
\* no scheme slot or alias holds, and it maps to that value; so no two custom
\* keys hold one value, none holds a scheme value, the slots keep the values
\* the scheme gave them, every other key is a slot or an alias, and the custom
\* keys follow each other in the map in the order of their N.
C23_Customs ==
    ThemeParsed =>
        LET doc == themeDoc
            lit == SrgbList(doc)
            colors == themeOut.colors
            customs == CustomAt(colors, doc)
        IN /\ \A i \in 1..Len(lit) :
                /\ DictHas(colors, CustomKey(i)) <=> Discovered(doc, i)
                /\ Discovered(doc, i) => DictGet(colors, CustomKey(i), NoneV) = lit[i]
           /\ \A k1, k2 \in customs :
                k1 < k2 =>
                    /\ colors[k1][2] # colors[k2][2]
                    /\ NumberAt(colors, doc, k1) < NumberAt(colors, doc, k2)
           /\ \A k \in customs : colors[k][2] \notin SchemeValues(doc)
           /\ \A t \in SlotTags :
                Declared(doc.scheme, t) =>
                    DictGet(colors, t, NoneV) = DeclVal(doc.scheme, t)
           /\ \A k \in (1..Len(colors)) \ customs : colors[k][1] \in SlotTags

\* The scheme declares dk1 twice, the theme holds one more literal colour, and
\* the map registers the overwritten value as custom1, skips the value dk1
\* holds and registers the third as custom3, in that order.
C23_Witness ==
    /\ ThemeParsed
    /\ Len(SrgbList(themeDoc)) = 3
    /\ Declared(themeDoc.scheme, "dk1")
    /\ DeclVal(themeDoc.scheme, "dk1") = SrgbList(themeDoc)[2]
    /\ Len(themeOut.colors) >= 2
    /\ themeOut.colors[Len(themeOut.colors) - 1] = <<"custom1", SrgbList(themeDoc)[1]>>
    /\ themeOut.colors[Len(themeOut.colors)] = <<"custom3", SrgbList(themeDoc)[3]>>
    /\ ~DictHas(themeOut.colors, "custom2")

-----------------------------------------------------------------------------
(* C24: the output location after a fatal input error *)

\* the input of the run has a fatal error: a missing file, a wrong extension
\* or an archive that cannot be extracted
FatalInput ==
    \/ ~archive.is_file
    \/ LowerSuffix(archive.suffix) # ".pptx"
    \/ ~archive.readable

\* the run ended with exit code 1 on such an input
FatalInputError == pc = "exited" /\ exit_code = 1 /\ FatalInput

\* C24 as stated: no step of a run of main on an input with a fatal error (a
\* missing file, a wrong extension, an archive that cannot be extracted)
\* changes the output location: an old directory keeps its contents, and no
\* directory appears where there was none.
C24_Original ==
    [][(pc # "idle" /\ FatalInput) => output_dir' = output_dir]_vars

\* The input file exists and is named .pptx but cannot be extracted; the run
\* ended with exit code 1 and the output location is a new empty directory.
C24_Witness ==
    /\ FatalInputError
    /\ archive.is_file
    /\ LowerSuffix(archive.suffix) = ".pptx"
    /\ ~archive.readable
    /\ output_dir = [exists |-> TRUE, files |-> EmptyDict]

-----------------------------------------------------------------------------
(* C25: one environment per environment name *)

\* the lines of a file that define an environment
Definitions(lines) == CommandsAt(lines, "newenvironment", "")

\* C25 as stated: in an outer theme written to its end no two definitions
\* carry the same environment name, and two descriptors of the layout map
\* with distinct layout names have distinct environment names.
C25_Original ==
    (layoutPc = "generated" /\ outer_file.exc = "none") =>
        /\ \A k1, k2 \in Definitions(outer_file.lines) :
                k1 # k2 => outer_file.lines[k1].name # outer_file.lines[k2].name
        /\ \A i, j \in 1..Len(layouts) :
                layouts[i][2].name # layouts[j][2].name
                    => EnvName(layouts[i][2].name) # EnvName(layouts[j][2].name)

\* The layout map holds the layouts "Title Slide" and "TitleSlide", and the
\* outer theme defines the environment titleslide twice.
C25_Witness ==
    /\ layoutPc = "generated"
    /\ outer_file.exc = "none"
    /\ {layouts[i][2].name : i \in 1..Len(layouts)} = {TitleSlideName, TitleSlideJoined}
    /\ Cardinality({k \in Definitions(outer_file.lines) :
            outer_file.lines[k].name = <<"t", "i", "t", "l", "e", "s", "l", "i", "d", "e">>}) = 2

=============================================================================
